---- MODULE Spec2Model ----
(***************************************************************************)
(* Model of recursive-creator: the dashboard's publish / unpublish /       *)
(* delete handlers over the user_documents and tools tables, and the       *)
(* sequence editor: its item list (imports, export, reorder, delete), its  *)
(* local draft, its load and save handlers with the image proxy, and the   *)
(* playlist route.                                                         *)
(***************************************************************************)
EXTENDS Integers, Sequences, FiniteSets, TLC

VARIABLES
    docs,               \* user_documents rows, by document id
    usedIds,            \* ids the database has ever handed out (uuids are never reused)
    tools,              \* tools rows (channel submissions), by row id
    dash,               \* the dashboard handler in flight, or the last one that ended
    editingId,          \* editor: searchParams.get('id'), NoId for a new sequence
    isPublished,        \* editor: isPublished state
    isReported,         \* editor: isReported state
    publishedUrl,       \* editor: publishedUrl state, as the id of the document the url views, NoId when null
    publishedDocId,     \* editor: publishedDocId state, NoId when null
    title,              \* editor: title state
    items,              \* editor: items state
    error,              \* editor: error state (also carries the success banners)
    importError,        \* editor: importError / playlistError / kidsChannelError states
    selectedItemIndex,  \* editor: selectedItemIndex state (position modal), 0-based, NoIndex when null
    lastOp,             \* history: the editor handler that ran last, with its inputs
    nOps,               \* history: number of steps taken, to bound the exploration
    draft,              \* localStorage 'sequence-draft'
    saving,             \* editor: saving state (a save awaits supabase)
    saveReq,            \* editor: what the save in flight captured when it was clicked
    pendingNav,         \* editor: the id router.push navigates to, NoId when none is under way
    crashed,            \* editor: an effect threw and the page shows the error screen
    hasUnsavedChanges,  \* editor: hasUnsavedChanges state (the floating save button is shown)
    importing,          \* editor: importing / importingPlaylist / importingKidsChannel, with the closure of the handler awaiting
    call                \* a function of the program under call: its argument and what it returned

storeVars == <<docs, usedIds, tools>>
dashVars == <<dash>>
sessionVars == <<editingId, isPublished, isReported, publishedUrl, publishedDocId, title>>
listVars == <<items, error, importError, selectedItemIndex, lastOp>>
draftVars == <<draft, saving, saveReq, pendingNav, crashed, hasUnsavedChanges, importing>>
vars == <<docs, usedIds, tools, dash, editingId, isPublished, isReported, title,
          items, error, importError, selectedItemIndex, lastOp, nOps,
          draft, saving, saveReq, pendingNav, crashed, call,
          publishedUrl, publishedDocId, hasUnsavedChanges, importing>>

----------------------------------------------------------------------------
(* Bounds *)

MaxDocs == 2
MaxTools == 2
MaxLen == 4
MaxLines == 2
MaxImport == 3
MaxOps == 2
MaxStamp == 2
MaxSteps == 8
MaxSession == 10
MaxWrap == 3
MaxAttempts == 4
MaxBatch == 1

(* Program constants *)

MAX_ITEMS == 50

DocIds == 1..MaxDocs
ToolIds == 1..MaxTools
NoId == 0
NoIndex == -1
Null == "null"

(* call: fn is the function, arg what it is called with, ret what it       *)
(* returned once done                                                      *)
Call(fn, arg) == [fn |-> fn, arg |-> arg, ret |-> <<>>, done |-> FALSE]
NoCall == Call("none", <<>>)

----------------------------------------------------------------------------
(* Strings that hold URLs.  A URL is kept by its shape and the id it       *)
(* carries, so that the regular expressions of the source can be applied.  *)
(*   yt_watch    https://youtube.com/watch?v=ID                            *)
(*   yt_be       https://youtu.be/ID                                       *)
(*   yt_embed    https://youtube.com/embed/ID                              *)
(*   yt_shorts   https://youtube.com/shorts/ID                             *)
(*   drive_file  https://drive.google.com/file/d/ID/view                   *)
(*   drive_open  https://drive.google.com/open?id=ID                       *)
(*   drive_uc    https://drive.google.com/uc?export=view&id=ID             *)
(*   vimeo       https://vimeo.com/ID          (a video host not handled)  *)
(*   generic     https://i.imgur.com/ID.jpg    (any other URL)             *)
(*   yt_other    https://youtube.com/playlist?list=ID (no video id in it)  *)
(*   yt_blank    https://youtu.be/ #t          (a blank where the id is)   *)
(*   blank       ' '                                                       *)
(*   id          ID                            (a bare id)                 *)
(*   empty       ''                                                        *)
(* prefix is the manual override typed in front of the URL.                *)

(* An id is a name and the number of characters it has: a YouTube video   *)
(* id has 11, a Drive file id has 33.                                      *)

Id(n, len) == [n |-> n, len |-> len]
YtId(n) == Id(n, 11)
DriveId(n) == Id(n, 33)
NoStrId == Id(0, 0)

(* ps and enc hold what the image proxy has put around the URL: ps is the   *)
(* list of '/api/proxy-image?url=' occurrences in front of it, each with    *)
(* the number of times encodeURIComponent has been applied to it, and enc   *)
(* that number for the URL itself.  A URL as typed has ps = <<>>, enc = 0.  *)
Str(prefix, kind, id) == [prefix |-> prefix, kind |-> kind, id |-> id, ps |-> <<>>, enc |-> 0]
Url(kind, id) == Str("", kind, id)
EmptyStr == Str("", "empty", NoStrId)
Undefined == Str("", "undefined", NoStrId)

YouTubeIdKinds == {"yt_watch", "yt_be", "yt_embed", "yt_shorts"}
YouTubeKinds == YouTubeIdKinds \cup {"yt_other", "yt_blank"}
Blank == Str("", "blank", Id(0, 1))
DriveKinds == {"drive_file", "drive_open", "drive_uc"}

(* s is truthy: a string that is not '' *)
Truthy(s) == s.ps # <<>> \/ s.kind \notin {"empty", "undefined"}

(* s.trim() !== '' && s is truthy *)
NonEmpty(s) == s.ps # <<>> \/ s.kind \notin {"empty", "undefined", "blank"}

(* url.includes('youtube.com') || url.includes('youtu.be') *)
IncludesYouTube(u) == u.kind \in YouTubeKinds

(* url.includes('drive.google.com') *)
IncludesDrive(u) == u.kind \in DriveKinds

----------------------------------------------------------------------------
(* The image proxy: wrapping on save, unwrapping on load *)

(* encodeURIComponent leaves letters, digits and - _ . ! ~ * ' ( ) as they *)
(* are: a bare id comes out unchanged, a URL does not                      *)
HasReserved(u) == u.kind \notin {"id", "empty", "undefined"}

(* `/api/proxy-image?url=${encodeURIComponent(item.image_url)}` *)
wrap(u) ==
    [u EXCEPT !.ps = <<0>> \o [i \in 1..Len(u.ps) |-> u.ps[i] + 1],
              !.enc = IF HasReserved(u) THEN u.enc + 1 ELSE u.enc]

Max0(n) == IF n > 0 THEN n ELSE 0

(* decodeURIComponent(s): one layer of percent-encoding taken off *)
decodeURIComponent(s) ==
    [s EXCEPT !.ps = [i \in 1..Len(s.ps) |-> Max0(s.ps[i] - 1)], !.enc = Max0(s.enc - 1)]

(* s.match(/\/api\/proxy-image\?url=(.+)/): the first plain occurrence of   *)
(* the proxy path that has at least one character behind it; rest is the   *)
(* capture group                                                            *)
proxyMatch(s) ==
    LET plain == {i \in 1..Len(s.ps) : s.ps[i] = 0}
        first == CHOOSE i \in plain : \A j \in plain : i <= j
    IN  IF plain # {} /\ (first < Len(s.ps) \/ s.kind \notin {"empty", "undefined"})
        THEN [matched |-> TRUE, rest |-> [s EXCEPT !.ps = SubSeq(s.ps, first + 1, Len(s.ps))]]
        ELSE [matched |-> FALSE, rest |-> s]

(* the inner URL is returned as it is, never decoded a second time *)
unwrapSingle(image_url) ==
    LET doubleProxyMatch == proxyMatch(image_url)
    IN  IF doubleProxyMatch.matched THEN decodeURIComponent(doubleProxyMatch.rest) ELSE image_url

(* loadSequence, the body of cleanedItems' callback for an image_url *)
unwrap(image_url) ==
    LET doubleProxyMatch == proxyMatch(image_url)
        innerUrl == decodeURIComponent(doubleProxyMatch.rest)
        innerProxyMatch == proxyMatch(innerUrl)
    IN  IF doubleProxyMatch.matched
        THEN IF innerProxyMatch.matched
             THEN decodeURIComponent(innerProxyMatch.rest)
             ELSE innerUrl
        ELSE image_url

----------------------------------------------------------------------------
(* The two tables.                                                         *)
(* user_documents: is_public column and document_data JSON.                *)
(* tools: tool_data.url = https://recursive.eco/view/{doc_id} and          *)
(* tool_data.is_active; url is kept as the document id it embeds.          *)

(* published_at is a time stamp, 0 for null.  Stamps are kept modulo the  *)
(* bound: Now(old) is a new Date() read after the stamp old was stored,    *)
(* which never equals it.                                                  *)
NoStamp == 0
Now(old) == IF old >= 1 /\ old < MaxStamp THEN old + 1 ELSE 1

DocumentData(t, pub, its) == [title |-> t, is_published |-> pub, published_at |-> NoStamp, items |-> its]
NoData == DocumentData("", "false", <<>>)
(* reported is the column the viewer site sets when a viewer reports the   *)
(* document; an insert leaves it to its default.                           *)
NoDoc == [exists |-> FALSE, is_public |-> FALSE, reported |-> FALSE, document_data |-> NoData]
DocRow(pub, data) == [exists |-> TRUE, is_public |-> pub, reported |-> FALSE, document_data |-> data]
(* .update({is_public, document_data}) on a row: the other columns stay *)
UpdateRow(row, pub, data) == [row EXCEPT !.is_public = pub, !.document_data = data]
NoTool == [exists |-> FALSE, url |-> NoId, is_active |-> "false"]

(* .ilike('tool_data->>url', `%${docId}%`) *)
SubmissionsOf(d) == {t \in ToolIds : tools[t].exists /\ tools[t].url = d}
ActiveSubmissionsOf(d) == {t \in SubmissionsOf(d) : tools[t].is_active = "true"}

(* Submit to Channel: the card's Submit link is rendered only for a        *)
(* published sequence; the channel site then creates a tools row with      *)
(* is_active "true" whose url embeds the document id.                      *)
SubmitToChannel(t, d) ==
    /\ docs[d].exists
    /\ docs[d].is_public
    /\ ~tools[t].exists
    /\ tools' = [tools EXCEPT ![t] = [exists |-> TRUE, url |-> d, is_active |-> "true"]]
    /\ UNCHANGED <<docs, usedIds, dashVars, sessionVars, listVars>>

(* The viewer site's Report button on a public document: the row is       *)
(* marked reported, and a report of type 'unpublish' takes it off the       *)
(* viewer as well.                                                         *)
reportContent(d, unpublish) ==
    /\ docs[d].exists
    /\ docs[d].is_public
    /\ ~docs[d].reported
    /\ docs' = [docs EXCEPT ![d] =
                   IF unpublish
                   THEN [UpdateRow(docs[d], FALSE, [docs[d].document_data EXCEPT !.is_published = "false"])
                            EXCEPT !.reported = TRUE]
                   ELSE [docs[d] EXCEPT !.reported = TRUE]]
    /\ UNCHANGED <<usedIds, tools, dashVars, sessionVars, listVars>>

----------------------------------------------------------------------------
(* Dashboard handlers.  Each await is a step; fetchOk / ok is the outcome  *)
(* of the awaited supabase call.                                           *)

(* alert is the text of the alert() the handler ended with, "" if none    *)
DashRec(op, id, pc, doc, fetched, updated) ==
    [op |-> op, id |-> id, pc |-> pc, doc |-> doc, fetched |-> fetched, updated |-> updated,
     alert |-> ""]
Alert(rec, msg) == [rec EXCEPT !.pc = "failed", !.alert = msg]
DashNone == DashRec("none", NoId, "idle", NoData, FALSE, FALSE)
DashIdle == dash.pc \in {"idle", "done", "failed"}

(* only the is_public column is written *)
WriteVisibilityColumnOnly(d, pub, data) ==
    IF docs[d].exists THEN [docs EXCEPT ![d] = UpdateRow(docs[d], pub, data)] ELSE docs

(* .update({is_public, document_data: {...doc.document_data, is_published}}) *)
(* .eq('id', sequenceId): a missing row matches nothing.                   *)
WriteVisibility(d, pub, data) ==
    IF docs[d].exists
    THEN [docs EXCEPT ![d] =
             UpdateRow(docs[d], pub, [data EXCEPT !.is_published = IF pub THEN "true" ELSE "false"])]
    ELSE docs

(* handleUnpublishSequence: confirm, then fetch document_data *)
handleUnpublishSequence(d, ok) ==
    /\ DashIdle
    /\ docs[d].exists
    /\ IF ok
       THEN dash' = DashRec("unpublish", d, "update", docs[d].document_data, TRUE, FALSE)
       ELSE dash' = Alert(DashRec("unpublish", d, "failed", NoData, FALSE, FALSE),
                          "Failed to unpublish project. Please try again.")
    /\ UNCHANGED <<storeVars, sessionVars, listVars>>

(* the update also deactivates the document's submissions *)
handleUnpublishSequenceUpdateCascade(ok) ==
    /\ dash.op = "unpublish"
    /\ dash.pc = "update"
    /\ IF ok
       THEN /\ docs' = WriteVisibility(dash.id, FALSE, dash.doc)
            /\ tools' = [t \in ToolIds |->
                            IF tools[t].exists /\ tools[t].url = dash.id
                            THEN [tools[t] EXCEPT !.is_active = "false"]
                            ELSE tools[t]]
            /\ dash' = [dash EXCEPT !.pc = "done", !.updated = TRUE]
       ELSE /\ dash' = Alert(dash, "Failed to unpublish project. Please try again.")
            /\ UNCHANGED <<docs, tools>>
    /\ UNCHANGED <<usedIds, sessionVars, listVars>>

(* handleUnpublishSequence: the update, then fetchSequences *)
handleUnpublishSequenceUpdate(ok) ==
    /\ dash.op = "unpublish"
    /\ dash.pc = "update"
    /\ IF ok
       THEN /\ docs' = WriteVisibility(dash.id, FALSE, dash.doc)
            /\ dash' = [dash EXCEPT !.pc = "done", !.updated = TRUE]
       ELSE /\ dash' = Alert(dash, "Failed to unpublish project. Please try again.")
            /\ UNCHANGED docs
    /\ UNCHANGED <<usedIds, tools, sessionVars, listVars>>

(* handlePublishSequence: fetch document_data; the card renders the        *)
(* Publish button only when is_published (is_public) is false              *)
handlePublishSequence(d, ok) ==
    /\ DashIdle
    /\ docs[d].exists
    /\ ~docs[d].is_public
    /\ IF ok
       THEN dash' = DashRec("publish", d, "update", docs[d].document_data, TRUE, FALSE)
       ELSE dash' = Alert(DashRec("publish", d, "failed", NoData, FALSE, FALSE),
                          "Failed to publish project. Please try again.")
    /\ UNCHANGED <<storeVars, sessionVars, listVars>>

(* handlePublishSequence: the update, then fetchSequences *)
handlePublishSequenceUpdate(ok) ==
    /\ dash.op = "publish"
    /\ dash.pc = "update"
    /\ IF ok
       THEN /\ docs' = WriteVisibility(dash.id, TRUE, dash.doc)
            /\ dash' = [dash EXCEPT !.pc = "done", !.updated = TRUE]
       ELSE /\ dash' = Alert(dash, "Failed to publish project. Please try again.")
            /\ UNCHANGED docs
    /\ UNCHANGED <<usedIds, tools, sessionVars, listVars>>

(* SequenceCard lock button: onClick={() => onUnsubmit(id)}, rendered only  *)
(* when is_published.  DashboardPage passes onDelete, onUnpublish and       *)
(* onPublish and no onUnsubmit, so the call throws inside the click         *)
(* handler and no table is written.                                         *)
onUnsubmit(d) ==
    /\ DashIdle
    /\ docs[d].exists
    /\ docs[d].is_public
    /\ dash' = DashRec("unsubmit", d, "failed", NoData, FALSE, FALSE)
    /\ UNCHANGED <<storeVars, sessionVars, listVars>>

(* handleDeleteSequence: confirm, then fetch document_data; the fetch      *)
(* error is not read, only `if (doc)`                                      *)
handleDeleteSequence(d, ok) ==
    /\ DashIdle
    /\ docs[d].exists
    /\ dash' = IF ok
               THEN DashRec("delete", d, "update", docs[d].document_data, TRUE, FALSE)
               ELSE DashRec("delete", d, "delete", NoData, FALSE, FALSE)
    /\ UNCHANGED <<storeVars, sessionVars, listVars>>

(* handleDeleteSequence: "Unpublish first"; the result of the update is    *)
(* not read                                                                *)
handleDeleteSequenceUnpublish(ok) ==
    /\ dash.op = "delete"
    /\ dash.pc = "update"
    /\ docs' = IF ok THEN WriteVisibility(dash.id, FALSE, dash.doc) ELSE docs
    /\ dash' = [dash EXCEPT !.pc = "delete", !.updated = ok]
    /\ UNCHANGED <<usedIds, tools, sessionVars, listVars>>

(* handleDeleteSequence: "Then delete", then fetchSequences *)
handleDeleteSequenceDelete(ok) ==
    /\ dash.op = "delete"
    /\ dash.pc = "delete"
    /\ IF ok
       THEN /\ docs' = [docs EXCEPT ![dash.id] = NoDoc]
            /\ dash' = [dash EXCEPT !.pc = "done"]
       ELSE /\ dash' = Alert(dash, "Failed to delete project. Please try again.")
            /\ UNCHANGED docs
    /\ UNCHANGED <<usedIds, tools, sessionVars, listVars>>

----------------------------------------------------------------------------
(* SequenceItem.  title / alt_text are plain text; "undefined" when the    *)
(* field is absent.                                                        *)

ImageItem(pos, image_url, alt_text) ==
    [position |-> pos, type |-> "image", image_url |-> image_url, video_id |-> Undefined,
     url |-> Undefined, title |-> "undefined", alt_text |-> alt_text]
VideoItem(pos, video_id, url, ttl) ==
    [position |-> pos, type |-> "video", image_url |-> Undefined, video_id |-> video_id,
     url |-> url, title |-> ttl, alt_text |-> "undefined"]

(* the filter of handleSaveDraft / handleSaveAsNew *)
ValidItem(item) ==
    IF item.type = "image" THEN NonEmpty(item.image_url) ELSE NonEmpty(item.video_id)
(* the filter left out *)
validItemsAll(its) == its
validItems(its) == SelectSeq(its, ValidItem)

(* the renumbering left out *)
RenumberSkipped(its) == its

(* newItems.forEach((item, i) => item.position = i + 1) *)
Renumber(its) == [i \in 1..Len(its) |-> [its[i] EXCEPT !.position = i]]

(* loadSequence: cleanedItems = data.document_data.items.map(...) *)
cleanedItems(its) ==
    [i \in 1..Len(its) |->
        IF its[i].type = "image" /\ Truthy(its[i].image_url)
        THEN [its[i] EXCEPT !.image_url = unwrap(its[i].image_url)]
        ELSE its[i]]

(* the old editor's handleSaveDraft: proxyWrappedItems = validItems.map(...) *)
proxyWrappedItems(its) ==
    [i \in 1..Len(its) |->
        IF its[i].type = "image" /\ Truthy(its[i].image_url)
        THEN [its[i] EXCEPT !.image_url = wrap(its[i].image_url)]
        ELSE its[i]]

Positions(its) == [i \in 1..Len(its) |-> its[i].position]
PositionsDense(its) == \A i \in 1..Len(its) : its[i].position = i

----------------------------------------------------------------------------
(* URL classifier *)

convertGoogleDriveUrl(u) ==
    IF u.kind \in {"drive_file", "drive_open"} THEN Url("drive_uc", u.id) ELSE u

convertGoogleDriveVideoUrl(u) ==
    IF u.kind \in {"drive_file", "drive_open"} THEN Url("id", u.id) ELSE u

(* '' when no pattern matches *)
extractYouTubeIdOrEmpty(u) ==
    IF u.kind \in YouTubeIdKinds THEN Url("id", u.id)
    ELSE IF u.kind = "yt_blank" THEN Blank
    ELSE EmptyStr

extractYouTubeId(u) ==
    IF u.kind \in YouTubeIdKinds THEN Url("id", u.id)
    ELSE IF u.kind = "yt_blank" THEN Blank
    ELSE IF u.prefix = "" /\ u.kind = "id" /\ u.id.len = 11 THEN Url("id", u.id)
    ELSE u

detectUrlType(line) ==
    IF line.prefix = "video:" THEN [type |-> "video", processedUrl |-> Url(line.kind, line.id)]
    ELSE IF line.prefix = "image:" THEN [type |-> "image", processedUrl |-> Url(line.kind, line.id)]
    ELSE IF IncludesYouTube(line) THEN [type |-> "video", processedUrl |-> line]
    ELSE [type |-> "image", processedUrl |-> line]

----------------------------------------------------------------------------
(* Editor: the item list handlers *)

Err(kind, src, n) == [kind |-> kind, src |-> src, n |-> n]
NoError == Err("null", "", 0)
LastOp(kind, ok, k) == [kind |-> kind, ok |-> ok, k |-> k]
NoOp == LastOp("none", TRUE, 0)

Skip == [type |-> "skip"]

(* one iteration of lines.forEach in handleImportFromModal *)
BulkLineItem(line, pos) ==
    LET d == detectUrlType(line)
        processedUrl == d.processedUrl
    IN  IF d.type = "video"
        THEN IF IncludesYouTube(processedUrl)
             THEN VideoItem(pos, extractYouTubeId(processedUrl), processedUrl, "")
             ELSE IF IncludesDrive(processedUrl)
             THEN VideoItem(pos, convertGoogleDriveVideoUrl(processedUrl), processedUrl, "")
             ELSE Skip
        ELSE ImageItem(pos, convertGoogleDriveUrl(processedUrl), "")

(* modalBulkUrls.split(/[\n,]+/).filter(line => line.trim()) *)
SplitLines(text) == SelectSeq(text, NonEmpty)

BulkNewItems(lines, startPosition) ==
    LET cand == [i \in 1..Len(lines) |-> BulkLineItem(lines[i], startPosition + (i - 1) + 1)]
    IN  SelectSeq(cand, LAMBDA c : c # Skip)

(* handleImportFromModal: text is the textarea, one entry per line *)
handleImportFromModal(text) ==
    LET lines == SplitLines(text)
        newItems == BulkNewItems(lines, Len(items))
    IN  /\ selectedItemIndex = NoIndex
        /\ Len(lines) > 0
        /\ IF Len(items) + Len(lines) > MAX_ITEMS
           THEN /\ error' = Err("max_items", "bulk", Len(items) + Len(lines))
                /\ lastOp' = LastOp("bulk", FALSE, Len(lines))
                /\ UNCHANGED items
           ELSE /\ items' = items \o newItems
                /\ error' = Err("imported", "bulk", Len(newItems))
                /\ lastOp' = LastOp("bulk", TRUE, Len(lines))
        /\ UNCHANGED <<storeVars, dashVars, sessionVars, importError, selectedItemIndex>>

(* What the import routes answer.  ok: the response was OK and the handler *)
(* got through its try block, with entries the files / videos listed.  Not *)
(* ok: a non-OK response or a thrown fetch / json error (no entries), or a *)
(* body on which the handler throws part-way through its try block.        *)

NoImportError == [drive |-> Null, playlist |-> Null, kids |-> Null]
(* no import awaits; an import that awaits holds the items.length of the   *)
(* render its handler was called in                                        *)
NotImporting == [on |-> FALSE, startPosition |-> 0]
NoImporting == [drive |-> NotImporting, playlist |-> NotImporting, kids |-> NotImporting]

DriveFiles(k) == [i \in 1..k |-> [url |-> Url("drive_file", DriveId(i)), name |-> "file"]]
PlaylistVideos(k) ==
    [i \in 1..k |-> [video_id |-> Url("id", YtId(i)), url |-> Url("yt_watch", YtId(i)), title |-> "video"]]
Response(ok, entries) == [ok |-> ok, entries |-> entries, count |-> Len(entries)]
DriveResponses ==
    {Response(FALSE, <<>>), Response(FALSE, DriveFiles(1))}
        \cup {Response(TRUE, DriveFiles(k)) : k \in 1..MaxImport}
VideoResponses ==
    {Response(FALSE, <<>>), Response(FALSE, PlaylistVideos(1))}
        \cup {Response(TRUE, PlaylistVideos(k)) : k \in 1..MaxImport}

(* one iteration of data.files.forEach in handleImportDriveFolder *)
DriveFileItem(file, pos) ==
    LET d == detectUrlType(file.url)
        processedUrl == d.processedUrl
    IN  IF d.type = "video"
        THEN IF IncludesDrive(processedUrl)
             THEN VideoItem(pos, convertGoogleDriveVideoUrl(processedUrl), processedUrl, file.name)
             ELSE Skip
        ELSE ImageItem(pos, convertGoogleDriveUrl(processedUrl), file.name)

DriveNewItems(files, startPosition) ==
    LET cand == [i \in 1..Len(files) |-> DriveFileItem(files[i], startPosition + (i - 1) + 1)]
    IN  SelectSeq(cand, LAMBDA c : c # Skip)

(* positions counted from startPosition instead of startPosition + 1 *)
PlaylistNewItemsOffByOne(videos, startPosition) ==
    [i \in 1..Len(videos) |->
        VideoItem(startPosition + (i - 1), extractYouTubeId(videos[i].url), videos[i].url, videos[i].title)]

(* data.videos.forEach in handleImportPlaylist *)
PlaylistNewItems(videos, startPosition) ==
    [i \in 1..Len(videos) |->
        VideoItem(startPosition + (i - 1) + 1, extractYouTubeId(videos[i].url), videos[i].url, videos[i].title)]

(* data.videos.forEach in handleImportKidsChannel *)
KidsNewItems(videos, startPosition) ==
    [i \in 1..Len(videos) |->
        VideoItem(startPosition + (i - 1) + 1, videos[i].video_id, videos[i].url, videos[i].title)]

(* the items built before the throw are appended all the same *)
ImportFromApiPartial(src, resp, newItems) ==
    /\ selectedItemIndex = NoIndex
    /\ items' = items \o newItems
    /\ IF resp.ok
       THEN /\ error' = Err("imported", src, resp.count)
            /\ importError' = [importError EXCEPT ![src] = Null]
       ELSE /\ importError' = [importError EXCEPT ![src] = "Failed to import"]
            /\ UNCHANGED error
    /\ lastOp' = LastOp(src, resp.ok, resp.count)
    /\ UNCHANGED <<storeVars, dashVars, sessionVars, selectedItemIndex>>

(* the three import handlers share their shape: on a response that is not  *)
(* ok the catch block sets the source's error; otherwise                    *)
(* setItems(prev => [...prev, ...newItems]) and the success banner          *)
ImportFromApi(src, resp, newItems) ==
    /\ selectedItemIndex = NoIndex
    /\ IF resp.ok
       THEN /\ items' = items \o newItems
            /\ error' = Err("imported", src, resp.count)
            /\ importError' = [importError EXCEPT ![src] = Null]
       ELSE /\ importError' = [importError EXCEPT ![src] = "Failed to import"]
            /\ UNCHANGED <<items, error>>
    /\ lastOp' = LastOp(src, resp.ok, resp.count)
    /\ UNCHANGED <<storeVars, dashVars, sessionVars, selectedItemIndex>>

handleImportDriveFolder(resp) ==
    ImportFromApi("drive", resp, DriveNewItems(resp.entries, Len(items)))

handleImportPlaylist(resp) ==
    ImportFromApi("playlist", resp, PlaylistNewItems(resp.entries, Len(items)))

handleImportKidsChannel(resp) ==
    ImportFromApi("kids", resp, KidsNewItems(resp.entries, Len(items)))

(* The import handlers with their await.  Up to the await: the button is   *)
(* disabled while this source's import awaits; the handler is a closure    *)
(* over the items of the render it was called in.                          *)
handleImportStart(src) ==
    /\ ~importing[src].on
    /\ importing' = [importing EXCEPT ![src] = [on |-> TRUE, startPosition |-> Len(items)]]
    /\ importError' = [importError EXCEPT ![src] = Null]
    /\ UNCHANGED <<storeVars, dashVars, sessionVars, items, error, selectedItemIndex, lastOp>>

(* newItems as the source's handler builds them *)
NewItemsOf(src, entries, startPosition) ==
    CASE src = "drive" -> DriveNewItems(entries, startPosition)
      [] src = "playlist" -> PlaylistNewItems(entries, startPosition)
      [] src = "kids" -> KidsNewItems(entries, startPosition)

(* From the await on: startPosition is the closure's items.length, and     *)
(* setItems(prev => [...prev, ...newItems]) appends to the list as it is   *)
(* now; the finally block clears the flag.                                 *)
handleImportDone(src, resp) ==
    /\ importing[src].on
    /\ importing' = [importing EXCEPT ![src] = NotImporting]
    /\ IF resp.ok
       THEN /\ items' = items \o NewItemsOf(src, resp.entries, importing[src].startPosition)
            /\ error' = Err("imported", src, resp.count)
            /\ UNCHANGED importError
       ELSE /\ importError' = [importError EXCEPT ![src] = "Failed to import"]
            /\ UNCHANGED <<items, error>>
    /\ lastOp' = LastOp(src, resp.ok, resp.count)
    /\ UNCHANGED <<storeVars, dashVars, sessionVars, selectedItemIndex>>

(* handleAddImage / handleAddVideo (the editor's add menu) *)
handleAddImage ==
    /\ IF Len(items) >= MAX_ITEMS
       THEN /\ error' = Err("max_items", "add", Len(items))
            /\ lastOp' = LastOp("add_image", FALSE, 1)
            /\ UNCHANGED items
       ELSE /\ items' = Append(items, ImageItem(Len(items) + 1, EmptyStr, ""))
            /\ lastOp' = LastOp("add_image", TRUE, 1)
            /\ UNCHANGED error
    /\ UNCHANGED <<storeVars, dashVars, sessionVars, importError, selectedItemIndex>>

handleAddVideo ==
    /\ IF Len(items) >= MAX_ITEMS
       THEN /\ error' = Err("max_items", "add", Len(items))
            /\ lastOp' = LastOp("add_video", FALSE, 1)
            /\ UNCHANGED items
       ELSE /\ items' = Append(items, VideoItem(Len(items) + 1, EmptyStr, EmptyStr, ""))
            /\ lastOp' = LastOp("add_video", TRUE, 1)
            /\ UNCHANGED error
    /\ UNCHANGED <<storeVars, dashVars, sessionVars, importError, selectedItemIndex>>

----------------------------------------------------------------------------
(* Editor: reorder and delete.  Indices are 0-based as in the source.      *)

RemoveAt(s, i) == [j \in 1..(Len(s) - 1) |-> IF j < i THEN s[j] ELSE s[j + 1]]
InsertAt(s, i, x) ==
    [j \in 1..(Len(s) + 1) |-> IF j < i THEN s[j] ELSE IF j = i THEN x ELSE s[j - 1]]

(* @dnd-kit/sortable: newArray.splice(to, 0, newArray.splice(from, 1)[0]) *)
arrayMove(array, from, to) == InsertAt(RemoveAt(array, from + 1), to + 1, array[from + 1])

(* what handleDragEnd and handleMoveToPosition leave in items, as         *)
(* functions of the list and the two indices                               *)
dragEndItems(its, oldIndex, newIndex) ==
    IF oldIndex # newIndex THEN Renumber(arrayMove(its, oldIndex, newIndex)) ELSE its

moveToPositionItems(its, selected, targetPosition) ==
    IF targetPosition < 1 \/ targetPosition > Len(its)
    THEN its
    ELSE Renumber(InsertAt(RemoveAt(its, selected + 1), (targetPosition - 1) + 1, its[selected + 1]))

(* handleDragEnd: active.id / over.id are the indices of two rendered cards *)
handleDragEnd(oldIndex, newIndex) ==
    /\ selectedItemIndex = NoIndex
    /\ oldIndex \in 0..(Len(items) - 1)
    /\ newIndex \in 0..(Len(items) - 1)
    /\ oldIndex # newIndex
    /\ items' = dragEndItems(items, oldIndex, newIndex)
    /\ lastOp' = LastOp("drag", TRUE, 0)
    /\ UNCHANGED <<storeVars, dashVars, sessionVars, error, importError, selectedItemIndex>>

(* handlePositionClick: opens the position modal over the page *)
handlePositionClick(index) ==
    /\ selectedItemIndex = NoIndex
    /\ index \in 0..(Len(items) - 1)
    /\ selectedItemIndex' = index
    /\ lastOp' = LastOp("position_click", TRUE, 0)
    /\ UNCHANGED <<storeVars, dashVars, sessionVars, items, error, importError>>

(* handleMoveToPosition, also behind Move to Beginning (1) and Move to End *)
(* (items.length)                                                          *)
handleMoveToPosition(targetPosition) ==
    /\ selectedItemIndex # NoIndex
    /\ ~(targetPosition < 1 \/ targetPosition > Len(items))
    /\ items' = moveToPositionItems(items, selectedItemIndex, targetPosition)
    /\ selectedItemIndex' = NoIndex
    /\ lastOp' = LastOp("move", TRUE, 0)
    /\ UNCHANGED <<storeVars, dashVars, sessionVars, error, importError>>

(* handleDeleteItem *)
handleDeleteItem(index) ==
    /\ selectedItemIndex = NoIndex
    /\ index \in 0..(Len(items) - 1)
    /\ items' = Renumber(RemoveAt(items, index + 1))
    /\ lastOp' = LastOp("delete", TRUE, 0)
    /\ UNCHANGED <<storeVars, dashVars, sessionVars, error, importError, selectedItemIndex>>

(* the Delete All button: setItems([]) after the confirm *)
deleteAllItems ==
    /\ selectedItemIndex = NoIndex
    /\ Len(items) > 0
    /\ items' = <<>>
    /\ error' = Err("deleted_all", "", 0)
    /\ lastOp' = LastOp("delete_all", TRUE, 0)
    /\ UNCHANGED <<storeVars, dashVars, sessionVars, importError, selectedItemIndex>>

(* the position modal's Cancel button *)
cancelPositionModal ==
    /\ selectedItemIndex # NoIndex
    /\ selectedItemIndex' = NoIndex
    /\ lastOp' = LastOp("position_cancel", TRUE, 0)
    /\ UNCHANGED <<storeVars, dashVars, sessionVars, items, error, importError>>

----------------------------------------------------------------------------
(* Editor: export.  handleExportLinks builds one URL per item, drops the   *)
(* empty ones and joins them with '\n' for the clipboard; pasted into the  *)
(* import modal the text is split into the same lines again.               *)

(* item.video_id.length === 11 *)
ElevenChars(s) == s.ps = <<>> /\ s.kind = "id" /\ s.id.len = 11

exportUrl(item) ==
    IF item.type = "video"
    THEN IF Truthy(item.url) THEN item.url
         ELSE IF Truthy(item.video_id) /\ ElevenChars(item.video_id)
         THEN Url("yt_watch", item.video_id.id)
         ELSE Url("drive_file", item.video_id.id)
    ELSE IF Truthy(item.image_url) THEN item.image_url ELSE EmptyStr

handleExportLinks(its) ==
    SelectSeq([i \in 1..Len(its) |-> exportUrl(its[i])], Truthy)

----------------------------------------------------------------------------
(* The playlist route: api/extract-playlist.  A duration string is a       *)
(* sequence of characters.                                                 *)

Digits == <<"0", "1", "2", "3", "4", "5", "6", "7", "8", "9">>
IsDigit(c) == \E d \in 1..Len(Digits) : Digits[d] = c
DigitValue(c) == (CHOOSE d \in 1..Len(Digits) : Digits[d] = c) - 1

(* parseInt(undefined) || 0 is 0: no digits, no value *)
RECURSIVE parseInt(_)
parseInt(digits) ==
    IF digits = <<>> THEN 0
    ELSE parseInt(SubSeq(digits, 1, Len(digits) - 1)) * 10 + DigitValue(digits[Len(digits)])

(* \d+ from pos on: the number of digits there *)
RECURSIVE DigitRun(_, _)
DigitRun(s, pos) ==
    IF pos <= Len(s) /\ IsDigit(s[pos]) THEN 1 + DigitRun(s, pos + 1) ELSE 0

(* (?:(\d+)U)? at pos: the digits captured and where the match goes on *)
Group(s, pos, unit) ==
    LET n == DigitRun(s, pos)
    IN  IF n > 0 /\ pos + n <= Len(s) /\ s[pos + n] = unit
        THEN [digits |-> SubSeq(s, pos, pos + n - 1), next |-> pos + n + 1]
        ELSE [digits |-> <<>>, next |-> pos]

(* /PT(?:(\d+)H)?(?:(\d+)M)?(?:(\d+)S)?/ is not anchored: the match      *)
(* starts at the first "PT" of the string and stops where no group fits    *)
parseDuration(isoDuration) ==
    LET PT == {i \in 1..(Len(isoDuration) - 1) : isoDuration[i] = "P" /\ isoDuration[i + 1] = "T"}
        first == CHOOSE i \in PT : \A j \in PT : i <= j
        hours == Group(isoDuration, first + 2, "H")
        minutes == Group(isoDuration, hours.next, "M")
        seconds == Group(isoDuration, minutes.next, "S")
    IN  IF PT = {} THEN 0
        ELSE parseInt(hours.digits) * 3600 + parseInt(minutes.digits) * 60 + parseInt(seconds.digits)

(* item.contentDetails is undefined *)
NoDuration == <<"undefined">>

(* what POST answers *)
Json(status, videos, message) == [status |-> status, videos |-> videos, error |-> message]
(* the catch block of POST *)
Caught == Json(500, <<>>, "Failed to extract playlist. Please try again.")

(* the fallback of POST: the listing's own fields *)
basicVideos(listed) ==
    [i \in 1..Len(listed) |->
        [video_id |-> Url("id", listed[i].videoId), title |-> listed[i].title,
         url |-> Url("yt_watch", listed[i].videoId), thumbnail |-> "default"]]

(* Step 3 of POST: one entry per item of the videos endpoint *)
enrichedVideos(found) ==
    [i \in 1..Len(found) |->
        [video_id |-> Url("id", found[i].id), title |-> found[i].title,
         creator |-> found[i].channelTitle,
         url |-> Url("yt_watch", found[i].id), thumbnail |-> "medium",
         duration_seconds |-> parseDuration(found[i].duration)]]

(* POST from the playlistItems fetch on.  response: the listing, with its  *)
(* status and items; videosResponse: the videos endpoint, kind "ok",       *)
(* "non_ok" (a status that is not OK), "network_error" (fetch rejects),    *)
(* "bad_json" (json() rejects) or "no_items" (a body without items); an    *)
(* item may come without contentDetails.duration (duration <<"undefined">>)*)
(* on which parseDuration throws.  Whatever throws ends in the catch block. *)
POST(response, videosResponse) ==
    IF response.status = 403
    THEN Json(403, <<>>, "API quota exceeded or playlist is private. Please try again later.")
    ELSE IF response.status # 200
    THEN Json(response.status, <<>>,
              "Failed to fetch playlist from YouTube. Please check if the playlist is public.")
    ELSE IF Len(response.items) = 0
    THEN Json(404, <<>>, "Playlist is empty or not found.")
    ELSE IF videosResponse.kind = "network_error" THEN Caught
    ELSE IF videosResponse.kind = "non_ok" THEN Json(200, basicVideos(response.items), "")
    ELSE IF videosResponse.kind \in {"bad_json", "no_items"} THEN Caught
    ELSE IF \E i \in 1..Len(videosResponse.items) : videosResponse.items[i].duration = NoDuration
    THEN Caught
    ELSE Json(200, enrichedVideos(videosResponse.items), "")

----------------------------------------------------------------------------
(* Editor: local draft, session, load and save *)

(* localStorage 'sequence-draft'.  Of the draft's fields the model keeps   *)
(* title and items, the two editor fields it has.                          *)
Draft(t, its) == [present |-> TRUE, title |-> t, items |-> its]
NoDraft == [present |-> FALSE, title |-> "", items |-> <<>>]

NoSave == [kind |-> "none", id |-> NoId, forcePublished |-> "undefined",
           shouldPublish |-> FALSE, data |-> NoData]


(* The autosave effect, run after the render that follows a handler.       *)
(* stored is what the handler itself left in localStorage; throws: the     *)
(* setItem call throws (quota exceeded, storage disabled).  The effect has *)
(* no try / catch: an exception leaves the effect and the page is replaced *)
(* by the error screen.  The effect runs when one of its dependencies has  *)
(* changed; a dependency set to an equal value rewrites an equal draft.    *)
AutosaveEffect(stored, throws) ==
    LET changed == <<title', items', editingId', saving'>> # <<title, items, editingId, saving>>
        writes == /\ changed
                  /\ editingId' = NoId /\ ~saving'
                  /\ (title' # "" \/ Len(items') > 0)
    IN  IF writes /\ throws
        THEN /\ crashed' = TRUE
             /\ draft' = stored
        ELSE /\ crashed' = crashed
             /\ draft' = IF writes THEN Draft(title', items') ELSE stored

(* The unsaved-changes effect, run after the render that follows a        *)
(* handler.  flag is what the handler itself set hasUnsavedChanges to;     *)
(* runs: the effect runs whatever the step changed (the first render of a  *)
(* mounted page, a render in which loading went back to false).            *)
UnsavedChangesEffect(flag, runs) ==
    LET changed == runs \/ <<title', items', saving'>> # <<title, items, saving>>
    IN  hasUnsavedChanges' = IF changed /\ ~saving' /\ (title' # "" \/ Len(items') > 0)
                             THEN TRUE
                             ELSE flag

(* a handler of the editor that neither saves nor navigates, followed by   *)
(* the effects of its render                                               *)
Rendered(A, throws) ==
    /\ ~crashed
    /\ A
    /\ UNCHANGED <<saving, saveReq, pendingNav>>
    /\ AutosaveEffect(draft, throws)
    /\ UnsavedChangesEffect(hasUnsavedChanges, FALSE)

(* such a handler that awaits no import *)
Editor(A, throws) == Rendered(A, throws) /\ UNCHANGED importing

(* a handler outside the editor page *)
Outside(A) == A /\ UNCHANGED draftVars

Titles == {"", " ", "A"}
(* title.trim() *)
Trim(t) == IF t = " " THEN "" ELSE t

(* the title input's onChange *)
setTitle(t) ==
    /\ t # title
    /\ title' = t
    /\ UNCHANGED <<storeVars, dashVars, editingId, isPublished, isReported,
                   publishedUrl, publishedDocId, listVars>>

(* the fresh editor without the effect that loads the draft *)
newSequenceBlank(throws) ==
    /\ ~saving /\ pendingNav = NoId
    /\ editingId' = NoId
    /\ isPublished' = FALSE
    /\ isReported' = FALSE
    /\ publishedUrl' = NoId
    /\ publishedDocId' = NoId
    /\ importing' = NoImporting
    /\ title' = ""
    /\ items' = <<>>
    /\ error' = NoError
    /\ importError' = NoImportError
    /\ selectedItemIndex' = NoIndex
    /\ lastOp' = NoOp
    /\ UNCHANGED <<storeVars, saving, saveReq, pendingNav>>
    /\ IF crashed
       THEN crashed' = FALSE /\ draft' = draft
       ELSE AutosaveEffect(draft, throws)
    /\ UnsavedChangesEffect(FALSE, TRUE)

(* /dashboard/sequences/new without an id: a fresh editor, then the effect *)
(* that loads the draft.  The user opens the page when no save and no      *)
(* navigation of an earlier editor is under way.                           *)
newSequence(throws) ==
    /\ ~saving /\ pendingNav = NoId
    /\ editingId' = NoId
    /\ isPublished' = FALSE
    /\ isReported' = FALSE
    /\ publishedUrl' = NoId
    /\ publishedDocId' = NoId
    /\ importing' = NoImporting
    /\ title' = IF draft.present /\ draft.title # "" THEN draft.title ELSE ""
    /\ items' = IF draft.present /\ Len(draft.items) > 0 THEN draft.items ELSE <<>>
    /\ error' = NoError
    /\ importError' = NoImportError
    /\ selectedItemIndex' = NoIndex
    /\ lastOp' = NoOp
    /\ UNCHANGED <<storeVars, saving, saveReq, pendingNav>>
    /\ IF crashed
       THEN crashed' = FALSE /\ draft' = draft
       ELSE AutosaveEffect(draft, throws)
    /\ UnsavedChangesEffect(FALSE, TRUE)

(* the row loadSequence(id) receives, applied to the editor state.  mount: *)
(* the editor was opened from the dashboard card (fresh state); otherwise  *)
(* the load follows the router.push of a save and the editor keeps its     *)
(* state where the row sets none.                                          *)
LoadInto(id, mount, ok) ==
    /\ editingId' = id
    /\ selectedItemIndex' = IF mount THEN NoIndex ELSE selectedItemIndex
    /\ importError' = IF mount THEN NoImportError ELSE importError
    /\ lastOp' = IF mount THEN NoOp ELSE lastOp
    /\ IF ok /\ docs[id].exists
       THEN /\ title' = docs[id].document_data.title
            /\ isPublished' = (docs[id].document_data.is_published = "true")
            /\ isReported' = docs[id].reported
            /\ publishedUrl' = IF isPublished' THEN id ELSE NoId
            /\ publishedDocId' = IF isPublished' THEN id ELSE NoId
            /\ items' = IF Len(docs[id].document_data.items) > 0
                        THEN cleanedItems(docs[id].document_data.items)
                        ELSE IF mount THEN <<>> ELSE items
            /\ error' = IF mount THEN NoError ELSE error
       ELSE /\ title' = IF mount THEN "" ELSE title
            /\ isPublished' = IF mount THEN FALSE ELSE isPublished
            /\ isReported' = IF mount THEN FALSE ELSE isReported
            /\ publishedUrl' = IF mount THEN NoId ELSE publishedUrl
            /\ publishedDocId' = IF mount THEN NoId ELSE publishedDocId
            /\ items' = IF mount THEN <<>> ELSE items
            /\ error' = Err("load_failed", "", 0)

(* the editor opened on a card of the dashboard: loadSequence(id) *)
loadSequence(id, ok) ==
    /\ docs[id].exists
    /\ ~saving /\ pendingNav = NoId
    /\ LoadInto(id, TRUE, ok)
    /\ crashed' = FALSE
    /\ importing' = NoImporting
    /\ UNCHANGED <<storeVars, draft, saving, saveReq, pendingNav>>
    /\ UnsavedChangesEffect(FALSE, TRUE)

(* router.push(`/dashboard/sequences/new?id=${id}`) takes effect: the page *)
(* renders with the new editingId and the load effect runs loadSequence,   *)
(* which shows the loading screen until the row has arrived.               *)
routerPush(ok) ==
    /\ ~crashed
    /\ pendingNav # NoId /\ ~saving
    /\ LoadInto(pendingNav, FALSE, ok)
    /\ pendingNav' = NoId
    /\ UNCHANGED <<storeVars, dashVars, draft, saving, saveReq, crashed, importing>>
    /\ UnsavedChangesEffect(hasUnsavedChanges, TRUE)

PublishedString(b) == IF b THEN "true" ELSE "false"

(* the checks handleSaveDraft and handleSaveAsNew start with *)
ValidationError ==
    IF Trim(title) = "" THEN Err("title_required", "", 0)
    ELSE IF Len(validItems(items)) = 0 THEN Err("item_required", "", 0)
    ELSE NoError

(* the save goes on after the error was set *)
handleSaveDraftNoAbort(forcePublished) ==
    LET shouldPublish == IF forcePublished # "undefined" THEN forcePublished = "true" ELSE isPublished
        data == DocumentData(Trim(title), PublishedString(shouldPublish), validItems(items))
    IN  /\ ~crashed /\ ~saving
        /\ IF forcePublished = "true"
           THEN Trim(title) # "" /\ Len(items) > 0 /\ ~isReported
           ELSE Len(items) > 0 \/ hasUnsavedChanges
        /\ saving' = TRUE
        /\ error' = ValidationError
        /\ saveReq' = [kind |-> "draft", id |-> editingId, forcePublished |-> forcePublished,
                       shouldPublish |-> shouldPublish, data |-> data]
        /\ UNCHANGED <<storeVars, dashVars, sessionVars, items, importError, selectedItemIndex,
                       lastOp, pendingNav, importing>>
        /\ AutosaveEffect(draft, FALSE)
        /\ UnsavedChangesEffect(hasUnsavedChanges, FALSE)

(* handleSaveDraft(forcePublished) up to its await.  forcePublished is     *)
(* "undefined" (Save Draft / Save Changes, floating save) or "true"        *)
(* (Publish).  The buttons are disabled while saving; Publish also without *)
(* a title, without items or when isReported; Save Draft without items,    *)
(* where the floating save is still there while hasUnsavedChanges.         *)
handleSaveDraft(forcePublished) ==
    LET shouldPublish == IF forcePublished # "undefined" THEN forcePublished = "true" ELSE isPublished
        data == DocumentData(Trim(title), PublishedString(shouldPublish), validItems(items))
    IN  /\ ~crashed /\ ~saving
        /\ IF forcePublished = "true"
           THEN Trim(title) # "" /\ Len(items) > 0 /\ ~isReported
           ELSE Len(items) > 0 \/ hasUnsavedChanges
        /\ IF ValidationError # NoError
           THEN /\ error' = ValidationError
                /\ UNCHANGED <<saving, saveReq>>
           ELSE /\ saving' = TRUE
                /\ error' = NoError
                /\ saveReq' = [kind |-> "draft", id |-> editingId,
                               forcePublished |-> forcePublished,
                               shouldPublish |-> shouldPublish, data |-> data]
        /\ UNCHANGED <<storeVars, dashVars, sessionVars, items, importError, selectedItemIndex,
                       lastOp, pendingNav, importing>>
        /\ AutosaveEffect(draft, FALSE)
        /\ UnsavedChangesEffect(hasUnsavedChanges, FALSE)

(* published_at: shouldPublish ? new Date().toISOString() : null *)
Stamped(data, shouldPublish, old) ==
    [data EXCEPT !.published_at = IF shouldPublish THEN Now(old) ELSE NoStamp]

(* without the finally block: setSaving(false) is never called *)
handleSaveDraftDoneNoFinally(ok, throws) ==
    /\ ~crashed /\ saving /\ saveReq.kind = "draft"
    /\ saving' = saving
    /\ saveReq' = NoSave
    /\ UNCHANGED <<tools, dashVars, editingId, isReported, title, items, importError,
                   selectedItemIndex, lastOp, importing>>
    /\ IF saveReq.id # NoId
       THEN \* UPDATE MODE
            /\ IF ok /\ docs[saveReq.id].exists
               THEN /\ docs' = [docs EXCEPT ![saveReq.id] =
                                   UpdateRow(docs[saveReq.id], saveReq.shouldPublish,
                                          Stamped(saveReq.data, saveReq.shouldPublish,
                                                  docs[saveReq.id].document_data.published_at))]
                    /\ isPublished' = saveReq.shouldPublish
                    /\ publishedUrl' = IF saveReq.shouldPublish THEN saveReq.id ELSE NoId
                    /\ publishedDocId' = publishedDocId
                    /\ error' = error
                    /\ AutosaveEffect(NoDraft, throws)
                    /\ UnsavedChangesEffect(FALSE, FALSE)
               ELSE /\ error' = Err("save_failed", "", 0)
                    /\ UNCHANGED <<docs, isPublished, publishedUrl, publishedDocId>>
                    /\ AutosaveEffect(draft, throws)
                    /\ UnsavedChangesEffect(hasUnsavedChanges, FALSE)
            /\ UNCHANGED <<usedIds, pendingNav>>
       ELSE \* CREATE MODE
            /\ IF ok
               THEN /\ \E id \in DocIds \ usedIds :
                         /\ docs' = [docs EXCEPT ![id] =
                                        DocRow(saveReq.shouldPublish,
                                               Stamped(saveReq.data, saveReq.shouldPublish, NoStamp))]
                         /\ usedIds' = usedIds \cup {id}
                         /\ pendingNav' = id
                         /\ publishedUrl' = IF saveReq.shouldPublish THEN id ELSE publishedUrl
                         /\ publishedDocId' = IF saveReq.shouldPublish THEN id ELSE publishedDocId
                    /\ isPublished' = saveReq.shouldPublish
                    /\ error' = error
                    /\ AutosaveEffect(NoDraft, throws)
                    /\ UnsavedChangesEffect(FALSE, FALSE)
               ELSE /\ error' = Err("save_failed", "", 0)
                    /\ UNCHANGED <<docs, usedIds, isPublished, pendingNav, publishedUrl, publishedDocId>>
                    /\ AutosaveEffect(draft, throws)
                    /\ UnsavedChangesEffect(hasUnsavedChanges, FALSE)

(* handleSaveDraft from its await on; ok is the outcome of the awaited     *)
(* update / insert.                                                        *)
handleSaveDraftDone(ok, throws) ==
    /\ ~crashed /\ saving /\ saveReq.kind = "draft"
    /\ saving' = FALSE
    /\ saveReq' = NoSave
    /\ UNCHANGED <<tools, dashVars, editingId, isReported, title, items, importError,
                   selectedItemIndex, lastOp, importing>>
    /\ IF saveReq.id # NoId
       THEN \* UPDATE MODE
            /\ IF ok /\ docs[saveReq.id].exists
               THEN /\ docs' = [docs EXCEPT ![saveReq.id] =
                                   UpdateRow(docs[saveReq.id], saveReq.shouldPublish,
                                          Stamped(saveReq.data, saveReq.shouldPublish,
                                                  docs[saveReq.id].document_data.published_at))]
                    /\ isPublished' = saveReq.shouldPublish
                    /\ publishedUrl' = IF saveReq.shouldPublish THEN saveReq.id ELSE NoId
                    /\ publishedDocId' = publishedDocId
                    /\ error' = error
                    /\ AutosaveEffect(NoDraft, throws)
                    /\ UnsavedChangesEffect(FALSE, FALSE)
               ELSE /\ error' = Err("save_failed", "", 0)
                    /\ UNCHANGED <<docs, isPublished, publishedUrl, publishedDocId>>
                    /\ AutosaveEffect(draft, throws)
                    /\ UnsavedChangesEffect(hasUnsavedChanges, FALSE)
            /\ UNCHANGED <<usedIds, pendingNav>>
       ELSE \* CREATE MODE
            /\ IF ok
               THEN /\ \E id \in DocIds \ usedIds :
                         /\ docs' = [docs EXCEPT ![id] =
                                        DocRow(saveReq.shouldPublish,
                                               Stamped(saveReq.data, saveReq.shouldPublish, NoStamp))]
                         /\ usedIds' = usedIds \cup {id}
                         /\ pendingNav' = id
                         /\ publishedUrl' = IF saveReq.shouldPublish THEN id ELSE publishedUrl
                         /\ publishedDocId' = IF saveReq.shouldPublish THEN id ELSE publishedDocId
                    /\ isPublished' = saveReq.shouldPublish
                    /\ error' = error
                    /\ AutosaveEffect(NoDraft, throws)
                    /\ UnsavedChangesEffect(FALSE, FALSE)
               ELSE /\ error' = Err("save_failed", "", 0)
                    /\ UNCHANGED <<docs, usedIds, isPublished, pendingNav, publishedUrl, publishedDocId>>
                    /\ AutosaveEffect(draft, throws)
                    /\ UnsavedChangesEffect(hasUnsavedChanges, FALSE)

(* handleSaveAsNew up to its await: the button is rendered only when       *)
(* editingId is set, and disabled while saving or without items.           *)
handleSaveAsNew ==
    /\ ~crashed /\ ~saving
    /\ editingId # NoId
    /\ Len(items) > 0
    /\ IF ValidationError # NoError
       THEN /\ error' = ValidationError
            /\ UNCHANGED <<saving, saveReq>>
       ELSE /\ saving' = TRUE
            /\ error' = NoError
            /\ saveReq' = [kind |-> "as_new", id |-> editingId, forcePublished |-> "undefined",
                           shouldPublish |-> FALSE,
                           data |-> DocumentData(Trim(title), "false", validItems(items))]
    /\ UNCHANGED <<storeVars, dashVars, sessionVars, items, importError, selectedItemIndex,
                   lastOp, pendingNav, importing>>
    /\ AutosaveEffect(draft, FALSE)
    /\ UnsavedChangesEffect(hasUnsavedChanges, FALSE)

(* the copy keeps the publish state of the editor *)
handleSaveAsNewDoneKeepsState(ok) ==
    /\ ~crashed /\ saving /\ saveReq.kind = "as_new"
    /\ saving' = FALSE
    /\ saveReq' = NoSave
    /\ UNCHANGED <<tools, dashVars, sessionVars, items, importError, selectedItemIndex, lastOp,
                   importing>>
    /\ IF ok
       THEN /\ \E id \in DocIds \ usedIds :
                 /\ docs' = [docs EXCEPT ![id] =
                                DocRow(isPublished,
                                       [saveReq.data EXCEPT !.is_published = PublishedString(isPublished)])]
                 /\ usedIds' = usedIds \cup {id}
                 /\ pendingNav' = id
            /\ error' = error
            /\ AutosaveEffect(NoDraft, FALSE)
            /\ UnsavedChangesEffect(FALSE, FALSE)
       ELSE /\ error' = Err("save_failed", "", 0)
            /\ UNCHANGED <<docs, usedIds, pendingNav>>
            /\ AutosaveEffect(draft, FALSE)
            /\ UnsavedChangesEffect(hasUnsavedChanges, FALSE)

(* handleSaveAsNew from its await on *)
handleSaveAsNewDone(ok) ==
    /\ ~crashed /\ saving /\ saveReq.kind = "as_new"
    /\ saving' = FALSE
    /\ saveReq' = NoSave
    /\ UNCHANGED <<tools, dashVars, sessionVars, items, importError, selectedItemIndex, lastOp,
                   importing>>
    /\ IF ok
       THEN /\ \E id \in DocIds \ usedIds :
                 /\ docs' = [docs EXCEPT ![id] = DocRow(FALSE, saveReq.data)]
                 /\ usedIds' = usedIds \cup {id}
                 /\ pendingNav' = id
            /\ error' = error
            /\ AutosaveEffect(NoDraft, FALSE)
            /\ UnsavedChangesEffect(FALSE, FALSE)
       ELSE /\ error' = Err("save_failed", "", 0)
            /\ UNCHANGED <<docs, usedIds, pendingNav>>
            /\ AutosaveEffect(draft, FALSE)
            /\ UnsavedChangesEffect(hasUnsavedChanges, FALSE)

(* The old editor page.  loadSequence: the row's items are set as stored *)
loadSequenceOld(id, ok) ==
    /\ docs[id].exists
    /\ ~saving /\ pendingNav = NoId
    /\ editingId' = id
    /\ isPublished' = FALSE
    /\ isReported' = FALSE
    /\ publishedUrl' = NoId
    /\ publishedDocId' = NoId
    /\ hasUnsavedChanges' = FALSE
    /\ importing' = NoImporting
    /\ selectedItemIndex' = NoIndex
    /\ importError' = NoImportError
    /\ lastOp' = NoOp
    /\ IF ok
       THEN /\ title' = docs[id].document_data.title
            /\ items' = docs[id].document_data.items
            /\ error' = NoError
       ELSE /\ title' = ""
            /\ items' = <<>>
            /\ error' = Err("load_failed", "", 0)
    /\ crashed' = FALSE
    /\ UNCHANGED <<storeVars, dashVars, draft, saving, saveReq, pendingNav>>

(* The old editor page.  handleSaveDraft: always an insert, with each      *)
(* image_url wrapped; the row has no is_published, and is_public is left   *)
(* to the column's default.  The page has no draft and does not navigate.  *)
handleSaveDraftOld(ok) ==
    /\ ~crashed /\ ~saving
    /\ IF ValidationError # NoError
       THEN /\ error' = ValidationError
            /\ UNCHANGED <<docs, usedIds>>
       ELSE /\ usedIds # DocIds
            /\ IF ok
               THEN /\ \E id \in DocIds \ usedIds :
                         /\ docs' = [docs EXCEPT ![id] =
                                        DocRow(FALSE, DocumentData(Trim(title), "undefined",
                                                                   proxyWrappedItems(validItems(items))))]
                         /\ usedIds' = usedIds \cup {id}
                    /\ error' = NoError
               ELSE /\ error' = Err("save_failed", "", 0)
                    /\ UNCHANGED <<docs, usedIds>>
    /\ UNCHANGED <<tools, dashVars, sessionVars, items, importError, selectedItemIndex, lastOp,
                   draftVars>>

----------------------------------------------------------------------------
(* Specification of the two stores: dashboard, channel site and the editor *)
(* saving one image.                                                       *)

InitEditor ==
    /\ editingId = NoId
    /\ isPublished = FALSE
    /\ isReported = FALSE
    /\ title = ""
    /\ items = <<>>
    /\ error = NoError
    /\ importError = NoImportError
    /\ selectedItemIndex = NoIndex
    /\ lastOp = NoOp
    /\ nOps = 0
    /\ draft = NoDraft
    /\ saving = FALSE
    /\ saveReq = NoSave
    /\ pendingNav = NoId
    /\ crashed = FALSE
    /\ publishedUrl = NoId
    /\ publishedDocId = NoId
    /\ hasUnsavedChanges = FALSE
    /\ importing = NoImporting

InitStore ==
    /\ docs = [d \in DocIds |-> NoDoc]
    /\ usedIds = {}
    /\ tools = [t \in ToolIds |-> NoTool]
    /\ dash = DashNone

Init == InitStore /\ InitEditor /\ call = NoCall

OneImage == <<Url("generic", Id(1, 5))>>

(* The owner works in one browser tab, on the dashboard or in the editor.  *)
(* dash.op = "none": the editor page is mounted; anything else: the        *)
(* dashboard is, and the editor's state is that of a page not yet opened.  *)
DashOpen == DashRec("open", NoId, "idle", NoData, FALSE, FALSE)

(* the link back to /dashboard: the editor unmounts, the dashboard mounts  *)
openDashboard ==
    /\ dash.op = "none"
    /\ ~saving /\ pendingNav = NoId
    /\ dash' = DashOpen
    /\ editingId' = NoId
    /\ isPublished' = FALSE
    /\ isReported' = FALSE
    /\ publishedUrl' = NoId
    /\ publishedDocId' = NoId
    /\ hasUnsavedChanges' = FALSE
    /\ importing' = NoImporting
    /\ title' = ""
    /\ items' = <<>>
    /\ error' = NoError
    /\ importError' = NoImportError
    /\ selectedItemIndex' = NoIndex
    /\ lastOp' = NoOp
    /\ crashed' = FALSE
    /\ UNCHANGED <<storeVars, draft, saving, saveReq, pendingNav>>

(* a handler of the dashboard page *)
OnDashboard(A) == dash.op # "none" /\ Outside(A)
(* a link of the dashboard that opens the editor page *)
OpenEditor(A) == dash.op # "none" /\ DashIdle /\ A /\ dash' = DashNone
(* a handler of the editor page *)
OnEditor(A) == dash.op = "none" /\ A

Next ==
    \/ \E d \in DocIds, ok \in BOOLEAN : OnDashboard(handleUnpublishSequence(d, ok)) /\ UNCHANGED <<nOps, call>>
    \/ \E ok \in BOOLEAN : OnDashboard(handleUnpublishSequenceUpdate(ok)) /\ UNCHANGED <<nOps, call>>
    \/ \E d \in DocIds, ok \in BOOLEAN : OnDashboard(handlePublishSequence(d, ok)) /\ UNCHANGED <<nOps, call>>
    \/ \E ok \in BOOLEAN : OnDashboard(handlePublishSequenceUpdate(ok)) /\ UNCHANGED <<nOps, call>>
    \/ \E d \in DocIds : OnDashboard(onUnsubmit(d)) /\ UNCHANGED <<nOps, call>>
    \/ \E d \in DocIds, ok \in BOOLEAN : OnDashboard(handleDeleteSequence(d, ok)) /\ UNCHANGED <<nOps, call>>
    \/ \E ok \in BOOLEAN : OnDashboard(handleDeleteSequenceUnpublish(ok)) /\ UNCHANGED <<nOps, call>>
    \/ \E ok \in BOOLEAN : OnDashboard(handleDeleteSequenceDelete(ok)) /\ UNCHANGED <<nOps, call>>
    \/ \E t \in ToolIds, d \in DocIds : Outside(SubmitToChannel(t, d)) /\ UNCHANGED <<nOps, call>>
    \/ openDashboard /\ UNCHANGED <<nOps, call>>
    \/ OpenEditor(newSequence(FALSE)) /\ UNCHANGED <<nOps, call>>
    \/ \E d \in DocIds, ok \in BOOLEAN : OpenEditor(loadSequence(d, ok)) /\ UNCHANGED <<nOps, call>>
    \/ \E t \in {"", "A"} : OnEditor(Editor(setTitle(t), FALSE)) /\ UNCHANGED <<nOps, call>>
    \/ Len(items) = 0 /\ OnEditor(Editor(handleImportFromModal(OneImage), FALSE)) /\ UNCHANGED <<nOps, call>>
    \/ \E ok \in BOOLEAN : OnEditor(routerPush(ok)) /\ UNCHANGED <<nOps, call>>
    \/ \E f \in {"undefined", "true"} : OnEditor(handleSaveDraft(f)) /\ UNCHANGED <<nOps, call>>
    \/ \E ok \in BOOLEAN : OnEditor(handleSaveDraftDone(ok, FALSE)) /\ UNCHANGED <<nOps, call>>
    \/ OnEditor(handleSaveAsNew) /\ UNCHANGED <<nOps, call>>
    \/ \E ok \in BOOLEAN : OnEditor(handleSaveAsNewDone(ok)) /\ UNCHANGED <<nOps, call>>

Spec == Init /\ [][Next]_vars

(* one step of a session of at most MaxSteps steps *)
Step(A) == nOps < MaxSteps /\ nOps' = nOps + 1 /\ A /\ UNCHANGED call

(* The same tab over sessions of at most MaxSession steps: publish,        *)
(* unpublish and save as new on documents with and without submissions.    *)
Session(A) == nOps < MaxSession /\ nOps' = nOps + 1 /\ A /\ UNCHANGED call

NextPublish ==
    \/ \E d \in DocIds, ok \in BOOLEAN : Session(OnDashboard(handleUnpublishSequence(d, ok)))
    \/ \E ok \in BOOLEAN : Session(OnDashboard(handleUnpublishSequenceUpdate(ok)))
    \/ \E d \in DocIds, ok \in BOOLEAN : Session(OnDashboard(handlePublishSequence(d, ok)))
    \/ \E ok \in BOOLEAN : Session(OnDashboard(handlePublishSequenceUpdate(ok)))
    \/ \E t \in ToolIds, d \in DocIds : Session(Outside(SubmitToChannel(t, d)))
    \/ \E d \in DocIds, unpublish \in BOOLEAN : Session(Outside(reportContent(d, unpublish)))
    \/ Session(openDashboard)
    \/ \E d \in DocIds, ok \in BOOLEAN : Session(OpenEditor(loadSequence(d, ok)))
    \/ Session(OnEditor(Editor(setTitle("A"), FALSE)))
    \/ Len(items) = 0 /\ Session(OnEditor(Editor(handleImportFromModal(OneImage), FALSE)))
    \/ \E ok \in BOOLEAN : Session(OnEditor(routerPush(ok)))
    \/ \E f \in {"undefined", "true"} : Session(OnEditor(handleSaveDraft(f)))
    \/ \E ok \in BOOLEAN : Session(OnEditor(handleSaveDraftDone(ok, FALSE)))
    \/ Session(OnEditor(handleSaveAsNew))
    \/ \E ok \in BOOLEAN : Session(OnEditor(handleSaveAsNewDone(ok)))

SpecPublish == Init /\ [][NextPublish]_vars

----------------------------------------------------------------------------
(* Specification of reorder and delete on the editor's list.  The editor   *)
(* starts on a list of 0..MaxLen items numbered 1..N, images and videos    *)
(* alternating.                                                            *)

SampleItem(i) ==
    IF i % 2 = 1
    THEN ImageItem(i, Url("generic", Id(i, 5)), "")
    ELSE VideoItem(i, Url("id", YtId(i)), Url("yt_watch", YtId(i)), "")
SampleList(n) == [i \in 1..n |-> SampleItem(i)]

InitList(lens) ==
    /\ InitStore
    /\ editingId = NoId
    /\ isPublished = FALSE
    /\ isReported = FALSE
    /\ title = ""
    /\ items \in {SampleList(n) : n \in lens}
    /\ error = NoError
    /\ importError = NoImportError
    /\ selectedItemIndex = NoIndex
    /\ lastOp = NoOp
    /\ nOps = 0
    /\ draft = IF Len(items) > 0 THEN Draft("", items) ELSE NoDraft
    /\ saving = FALSE
    /\ saveReq = NoSave
    /\ pendingNav = NoId
    /\ crashed = FALSE
    /\ publishedUrl = NoId
    /\ publishedDocId = NoId
    /\ hasUnsavedChanges = FALSE
    /\ importing = NoImporting
    /\ call = NoCall

InitReorder == InitList(0..MaxLen)

NextReorder ==
    \/ \E o, n \in 0..(MaxLen - 1) : Editor(handleDragEnd(o, n), FALSE) /\ UNCHANGED <<nOps, call>>
    \/ \E i \in 0..(MaxLen - 1) : Editor(handlePositionClick(i), FALSE) /\ UNCHANGED <<nOps, call>>
    \/ \E p \in 1..MaxLen : Editor(handleMoveToPosition(p), FALSE) /\ UNCHANGED <<nOps, call>>
    \/ Editor(cancelPositionModal, FALSE) /\ UNCHANGED <<nOps, call>>
    \/ \E i \in 0..(MaxLen - 1) : Editor(handleDeleteItem(i), FALSE) /\ UNCHANGED <<nOps, call>>
    \/ Editor(deleteAllItems, FALSE) /\ UNCHANGED <<nOps, call>>

SpecReorder == InitReorder /\ [][NextReorder]_vars

----------------------------------------------------------------------------
(* Specification of the append paths.  The editor starts on a short list   *)
(* or on one just under the cap and runs up to MaxOps handlers.            *)

VideoLine == Url("yt_watch", YtId(1))
UnknownVideoLine == Str("video:", "vimeo", Id(2, 9))
ImageLine == Url("generic", Id(3, 5))
DriveImageLine == Url("drive_file", DriveId(4))
DriveVideoLine == Str("video:", "drive_file", DriveId(5))
BlankLine == EmptyStr

CoreLines == {VideoLine, UnknownVideoLine, ImageLine}
BulkTexts ==
    UNION {[1..n -> CoreLines] : n \in 1..MaxLines}
        \cup {<<DriveImageLine>>, <<DriveVideoLine>>, <<BlankLine, ImageLine>>}

InitImport == InitList({0, 2, MAX_ITEMS - 1})

Counted(A) == nOps < MaxOps /\ nOps' = nOps + 1 /\ Editor(A, FALSE) /\ UNCHANGED call

NextImport ==
    \/ \E text \in BulkTexts : Counted(handleImportFromModal(text))
    \/ \E resp \in DriveResponses : Counted(handleImportDriveFolder(resp))
    \/ \E resp \in VideoResponses : Counted(handleImportPlaylist(resp))
    \/ \E resp \in VideoResponses : Counted(handleImportKidsChannel(resp))
    \/ Counted(handleAddImage)
    \/ Counted(handleAddVideo)

SpecImport == InitImport /\ [][NextImport]_vars

----------------------------------------------------------------------------
(* Specification of the editor's draft and save: one tab on the editor     *)
(* page, a storage that may refuse a write, and a list of up to MaxLines   *)
(* items, some of them without content; sessions of up to MaxSteps steps.  *)

BlankIdLine == Url("yt_blank", Id(0, 1))
DraftTexts == {<<ImageLine>>, <<BlankIdLine>>}

NextDraft ==
    \/ \E throws \in BOOLEAN : Step(newSequence(throws)) /\ UNCHANGED dash
    \/ \E d \in DocIds, ok \in BOOLEAN : Step(loadSequence(d, ok)) /\ UNCHANGED dash
    \/ \E t \in Titles, throws \in BOOLEAN : Step(Editor(setTitle(t), throws))
    \/ \E text \in DraftTexts, throws \in BOOLEAN :
          Len(items) < MaxLines /\ Step(Editor(handleImportFromModal(text), throws))
    \/ \E throws \in BOOLEAN : Step(Editor(handleDeleteItem(0), throws))
    \/ Step(Editor(deleteAllItems, FALSE))
    \/ \E f \in {"undefined", "true"} : Step(handleSaveDraft(f))
    \/ \E ok, throws \in BOOLEAN : Step(handleSaveDraftDone(ok, throws))
    \/ Step(handleSaveAsNew)
    \/ \E ok \in BOOLEAN : Step(handleSaveAsNewDone(ok))
    \/ \E ok \in BOOLEAN : Step(routerPush(ok))

SpecDraft == Init /\ [][NextDraft]_vars

----------------------------------------------------------------------------
(* Specification of the old and the new editor on the same documents: the  *)
(* old editor's page loads a document as stored and inserts a new row      *)
(* with every image URL wrapped on each save; the new editor unwraps on    *)
(* load and stores its items as they are.  Both pages keep title and items *)
(* in state of the same names.                                             *)

NextProxy ==
    \/ Step(Editor(setTitle("A"), FALSE))
    \/ Len(items) = 0 /\ Step(Editor(handleImportFromModal(OneImage), FALSE))
    \/ Step(handleSaveDraft("undefined"))
    \/ \E ok \in BOOLEAN : Step(handleSaveDraftDone(ok, FALSE))
    \/ \E ok \in BOOLEAN : Step(routerPush(ok))
    \/ \E d \in DocIds, ok \in BOOLEAN : Step(loadSequence(d, ok)) /\ UNCHANGED dash
    \/ \E d \in DocIds, ok \in BOOLEAN : Step(loadSequenceOld(d, ok))
    \/ \E ok \in BOOLEAN : Step(handleSaveDraftOld(ok))

SpecProxy == Init /\ [][NextProxy]_vars

----------------------------------------------------------------------------
(* Specification of the editor page opened and left: one tab going between *)
(* the dashboard and the editor, on new sequences and saved ones, with a   *)
(* draft store that may throw, over sessions of at most MaxSession steps.  *)

NextOpen ==
    \/ Session(openDashboard)
    \/ \E throws \in BOOLEAN : Session(OpenEditor(newSequence(throws)))
    \/ \E d \in DocIds, ok \in BOOLEAN : Session(OpenEditor(loadSequence(d, ok)))
    \/ \E t \in Titles, throws \in BOOLEAN : Session(OnEditor(Editor(setTitle(t), throws)))
    \/ \E text \in DraftTexts :
          Len(items) < MaxLines /\ Session(OnEditor(Editor(handleImportFromModal(text), FALSE)))
    \/ Session(OnEditor(Editor(deleteAllItems, FALSE)))
    \/ \E f \in {"undefined", "true"} : Session(OnEditor(handleSaveDraft(f)))
    \/ \E ok \in BOOLEAN : Session(OnEditor(handleSaveDraftDone(ok, FALSE)))
    \/ \E ok \in BOOLEAN : Session(OnEditor(routerPush(ok)))

SpecOpen == Init /\ [][NextOpen]_vars

----------------------------------------------------------------------------
(* Specification of two tabs of one owner: the dashboard in one, the       *)
(* editor in the other, each going on whatever the other does, over        *)
(* sessions of at most MaxSession steps.                                   *)

NextTabs ==
    \/ \E d \in DocIds, ok \in BOOLEAN : Session(Outside(handleUnpublishSequence(d, ok)))
    \/ \E ok \in BOOLEAN : Session(Outside(handleUnpublishSequenceUpdate(ok)))
    \/ \E d \in DocIds, ok \in BOOLEAN : Session(Outside(handlePublishSequence(d, ok)))
    \/ \E ok \in BOOLEAN : Session(Outside(handlePublishSequenceUpdate(ok)))
    \/ Session(Editor(setTitle("A"), FALSE))
    \/ Len(items) < MaxLines /\ Session(Editor(handleImportFromModal(OneImage), FALSE))
    \/ \E f \in {"undefined", "true"} : Session(handleSaveDraft(f))
    \/ \E ok \in BOOLEAN : Session(handleSaveDraftDone(ok, FALSE))
    \/ \E ok \in BOOLEAN : Session(routerPush(ok))

SpecTabs == Init /\ [][NextTabs]_vars

----------------------------------------------------------------------------
(* Specification of the editor's awaits: imports and saves in flight while *)
(* the user goes on.  The user makes at most MaxAttempts clicks and edits, *)
(* and starts imports on the empty list; what was awaited arrives whenever *)
(* it does, and it does arrive: a fetch and a supabase call settle, with a *)
(* result or an error.                                                     *)

Attempt(A) == nOps < MaxAttempts /\ nOps' = nOps + 1 /\ A /\ UNCHANGED call
Arrival(A) == A /\ UNCHANGED <<nOps, call>>

(* what an awaited import call answers: an error, or 1..MaxBatch entries *)
ResponsesOf(src) ==
    {Response(FALSE, <<>>)}
        \cup {Response(TRUE, IF src = "drive" THEN DriveFiles(k) ELSE PlaylistVideos(k)) :
                  k \in 1..MaxBatch}

ImportArrives(src) ==
    \E resp \in ResponsesOf(src) : Arrival(Rendered(handleImportDone(src, resp), FALSE))
SaveArrives == \E ok \in BOOLEAN : Arrival(handleSaveDraftDone(ok, FALSE))
SaveAsNewArrives == \E ok \in BOOLEAN : Arrival(handleSaveAsNewDone(ok))

NextInFlight ==
    \/ Attempt(Editor(setTitle("A"), FALSE))
    \/ Len(items) = 0 /\ Attempt(Editor(handleImportFromModal(OneImage), FALSE))
    \/ \E src \in {"drive", "playlist", "kids"} :
          Len(items) = 0 /\ Attempt(Rendered(handleImportStart(src), FALSE))
    \/ \E f \in {"undefined", "true"} : Attempt(handleSaveDraft(f))
    \/ Attempt(handleSaveAsNew)
    \/ \E src \in {"drive", "playlist", "kids"} : ImportArrives(src)
    \/ SaveArrives
    \/ SaveAsNewArrives
    \/ \E ok \in BOOLEAN : Arrival(routerPush(ok))

SpecInFlight ==
    /\ Init
    /\ [][NextInFlight]_vars
    /\ \A src \in {"drive", "playlist", "kids"} : WF_vars(ImportArrives(src))
    /\ WF_vars(SaveArrives)
    /\ WF_vars(SaveAsNewArrives)

----------------------------------------------------------------------------
(* Specification of the functions: a call is drawn with its argument, and  *)
(* the function is applied to it.                                          *)

programVars == <<docs, usedIds, tools, dash, editingId, isPublished, isReported, title,
                 items, error, importError, selectedItemIndex, lastOp, nOps,
                 draft, saving, saveReq, pendingNav, crashed,
                 publishedUrl, publishedDocId, hasUnsavedChanges, importing>>

Return(ret) ==
    /\ ~call.done
    /\ call' = [call EXCEPT !.ret = ret, !.done = TRUE]
    /\ UNCHANGED programVars

(* image URLs as the editor holds them, and as stored after n saves of the *)
(* old editor                                                              *)
RawImageUrls == {Url("generic", Id(1, 5)), Url("drive_uc", DriveId(2)), Url("id", Id(3, 5))}
RECURSIVE Wrapped(_, _)
Wrapped(u, n) == IF n = 0 THEN u ELSE wrap(Wrapped(u, n - 1))
StoredImageUrls == {Wrapped(u, n) : u \in RawImageUrls, n \in 0..MaxWrap}

(* lines the import modal is given, and the lists they make *)
ExportLines == {VideoLine, ImageLine, DriveImageLine, DriveVideoLine}
ImportedLists == {BulkNewItems(text, 0) : text \in UNION {[1..n -> ExportLines] : n \in 1..MaxLines}}

(* lists numbered 1..N, and lists as a bulk import that skipped a line     *)
(* leaves them                                                             *)
GappedList(n) == BulkNewItems(<<UnknownVideoLine>> \o [i \in 1..n |-> ImageLine], 0)
ReorderLists == {SampleList(n) : n \in 1..MaxLen} \cup {GappedList(n) : n \in 1..MaxLines}
ReorderInputs ==
    UNION {{[items |-> its, from |-> from, to |-> to] : from, to \in 0..(Len(its) - 1)} :
              its \in ReorderLists}

ClassifyLines ==
    {VideoLine, ImageLine, DriveImageLine, DriveVideoLine, UnknownVideoLine,
     Url("yt_be", YtId(6)), Url("yt_embed", YtId(7)), Url("yt_shorts", YtId(8)),
     Url("drive_open", DriveId(9)), Str("video:", "drive_open", DriveId(10)),
     Str("image:", "yt_watch", YtId(11)), Str("video:", "yt_watch", YtId(12)),
     Url("drive_uc", DriveId(13)), Url("yt_other", Id(14, 34))}

(* duration strings: PT[nH][nM][nS] with every subset of the components,  *)
(* and strings that are not of that form                                   *)
Numbers == {<<"1">>, <<"7">>, <<"3", "2">>}
Component(unit) == {<<>>} \cup {n \o <<unit>> : n \in Numbers}
IsoDuration(h, m, sec) == <<"P", "T">> \o h \o m \o sec
IsoDurations == {IsoDuration(h, m, sec) : h \in Component("H"), m \in Component("M"), sec \in Component("S")}
OtherDurations ==
    {<<>>, <<"x">>, <<"7", "M">>, <<"P", "1", "D", "T", "1", "H">>, <<"P", "T", "x">>,
     <<"P", "T", "1", "M", "2", "H">>, <<"P", "T", "5", "S", "x">>, <<"x", "P", "T", "5", "S">>}

(* listings and answers of the videos endpoint *)
Listed(k) == [i \in 1..k |-> [videoId |-> YtId(i), title |-> "video"]]
Found(k, duration) ==
    [i \in 1..k |-> [id |-> YtId(i), title |-> "video", channelTitle |-> "channel",
                     duration |-> duration]]
Listings ==
    {[status |-> 403, items |-> <<>>], [status |-> 500, items |-> <<>>], [status |-> 200, items |-> <<>>]}
        \cup {[status |-> 200, items |-> Listed(k)] : k \in 1..MaxImport}
VideosResponses(k) ==
    {[kind |-> kind, items |-> <<>>] : kind \in {"network_error", "non_ok", "bad_json", "no_items"}}
        \cup {[kind |-> "ok", items |-> Found(k, d)] :
                  d \in {NoDuration, <<"P", "T", "7", "M", "3", "2", "S">>}}
PostInputs ==
    {[response |-> r, videosResponse |-> v] : r \in Listings, v \in UNION {VideosResponses(k) : k \in 1..MaxImport}}

CallInputs ==
    {Call("unwrap", x) : x \in StoredImageUrls}
        \cup {Call("export_import", x) : x \in ImportedLists}
        \cup {Call("reorder", x) : x \in ReorderInputs}
        \cup {Call("classify", x) : x \in ClassifyLines}
        \cup {Call("parseDuration", x) : x \in IsoDurations \cup OtherDurations}
        \cup {Call("POST", x) : x \in PostInputs}

InitCalls == InitStore /\ InitEditor /\ call \in CallInputs

NextCalls ==
    \/ call.fn = "unwrap" /\ Return(unwrap(call.arg))
    \/ call.fn = "export_import"
          /\ Return(BulkNewItems(SplitLines(handleExportLinks(call.arg)), 0))
    \/ call.fn = "reorder"
          /\ Return([drag |-> dragEndItems(call.arg.items, call.arg.from, call.arg.to),
                     move |-> moveToPositionItems(call.arg.items, call.arg.from, call.arg.to + 1)])
    \/ call.fn = "classify" /\ Return(BulkLineItem(call.arg, 1))
    \/ call.fn = "parseDuration" /\ Return(parseDuration(call.arg))
    \/ call.fn = "POST" /\ Return(POST(call.arg.response, call.arg.videosResponse))

SpecCalls == InitCalls /\ [][NextCalls]_vars

----------------------------------------------------------------------------
(* Claims about the two stores, checked under Spec *)

(* C1: in every reachable state no channel submission is active while the *)
(* document it references is unpublished (the broken link is unreachable). *)
NoBrokenLink ==
    \A t \in ToolIds :
        (tools[t].exists /\ tools[t].is_active = "true" /\ docs[tools[t].url].exists)
            => docs[tools[t].url].is_public

(* C2: the document record is never deleted while a submission that       *)
(* references it is still active: delete deactivates them all first.       *)
DeleteAfterUnsubmit ==
    [][\A d \in DocIds :
          (docs[d].exists /\ ~docs'[d].exists) => ActiveSubmissionsOf(d) = {}]_vars

(* C3: if a step that must precede the record deletion failed (the fetch  *)
(* or the pre-delete visibility update), the delete is aborted: it never   *)
(* ends with the record deleted.                                           *)
DeleteAbortsOnFailedStep ==
    (dash.op = "delete" /\ dash.pc = "done") => (dash.fetched /\ dash.updated)

(* C4: the lock button (unsubmitAll) sets every submission that references *)
(* the document to inactive and leaves the document's visibility as it was. *)
UnsubmitDeactivatesAll ==
    [][(dash'.op = "unsubmit" /\ dash' # dash)
          => /\ \A t \in ToolIds :
                   (tools'[t].exists /\ tools'[t].url = dash'.id) => tools'[t].is_active = "false"
             /\ docs' = docs]_vars

----------------------------------------------------------------------------
(* Claims about reorder and delete, checked under SpecReorder *)

(* C5: after any sequence of drag-and-drop moves, move-to-position (also  *)
(* to start and to end) and item deletions on a list numbered 1..N, the    *)
(* positions are exactly 1..M for the length M: position = index + 1.      *)
PositionsStayDense == PositionsDense(items)

(* the third item of a three-item list was moved to the start *)
MovedToStartWitness ==
    /\ lastOp.kind = "move"
    /\ Len(items) = 3
    /\ items[1].image_url = Url("generic", Id(3, 5))
    /\ Positions(items) = <<1, 2, 3>>

----------------------------------------------------------------------------
(* Claims about the append paths, checked under SpecImport *)

ApiImports == {"drive", "playlist", "kids"}
Imports == ApiImports \cup {"bulk"}

(* C6: the item list never holds more than MAX_ITEMS (50) items, whatever *)
(* the append path.                                                        *)
AtMostMaxItems == Len(items) <= MAX_ITEMS

(* C7: an import that would bring the list above 50 items adds nothing    *)
(* and leaves the list as it was.                                          *)
OverCapImportRejected ==
    [][(lastOp'.kind \in Imports /\ Len(items) + lastOp'.k > MAX_ITEMS) => items' = items]_vars

(* the i-th new item is built from the i-th entry of the response *)
FromEntry(item, i) ==
    IF item.type = "image" THEN item.image_url.id.n = i ELSE item.video_id.id.n = i

FailedImportLeavesList ==
    [][(lastOp'.kind \in ApiImports /\ ~lastOp'.ok)
          => /\ items' = items
             /\ error' = error
             /\ importError'[lastOp'.kind] # Null
             /\ \A src \in ApiImports \ {lastOp'.kind} : importError'[src] = importError[src]]_vars

(* a Drive import failed part-way on a two-item list *)
FailedDriveImportWitness ==
    /\ lastOp = LastOp("drive", FALSE, 1)
    /\ items = SampleList(2)
    /\ importError.drive # Null

(* C10: after a bulk URL import that skipped unrecognised video lines the *)
(* positions are still exactly 1..N, and the success count is the number   *)
(* of items added.                                                         *)
BulkImportKeepsPositionsDense ==
    [][(lastOp'.kind = "bulk" /\ lastOp'.ok /\ PositionsDense(items))
          => /\ PositionsDense(items')
             /\ error' = Err("imported", "bulk", Len(items') - Len(items))]_vars

----------------------------------------------------------------------------
(* Claims about the draft and the save, checked under SpecDraft *)

(* a save that was awaiting its insert / update ends having written a row *)
SaveSucceeds == saving /\ ~saving' /\ docs' # docs
CreateSucceeds == SaveSucceeds /\ saveReq.kind = "draft" /\ saveReq.id = NoId

(* C11: once the save of a new document (or a save as new) has succeeded  *)
(* the draft store holds no draft, and none appears until the user edits a *)
(* new, unsaved document again.                                            *)
DraftClearedBySave ==
    [][/\ (SaveSucceeds /\ saveReq.id = NoId) => ~draft'.present
       /\ (~draft.present /\ draft'.present)
             => (editingId = NoId /\ pendingNav = NoId /\ ~saving
                 /\ <<title', items'>> # <<title, items>>)]_vars

(* C12: once the document in the editor has a server identity, no step of *)
(* the editor writes the draft store (a step may still clear it).          *)
DraftOnlyForNewDocument ==
    [][(editingId' # NoId \/ pendingNav' # NoId) => (draft' = draft \/ ~draft'.present)]_vars

(* C13: on a new, unsaved document with no save in flight, after every    *)
(* change of title or items the stored draft is the document in memory,    *)
(* also when the change empties the document.                              *)
DraftFollowsEdits ==
    [][(/\ editingId = NoId /\ editingId' = NoId /\ pendingNav = NoId
        /\ ~saving /\ ~saving' /\ ~crashed'
        /\ <<title', items'>> # <<title, items>>)
          => draft' = Draft(title', items')]_vars

(* C14: a draft write that throws is swallowed: the page never ends on    *)
(* the error screen, where no later save can be made.                      *)
StorageFailureSwallowed == ~crashed

(* C15: a save or save as new that fails its checks (blank title, no      *)
(* valid item) sets the inline error and writes nothing: document store,   *)
(* saving flag, published state and draft store are as before.             *)
ValidationAborts ==
    [][(error' # error /\ error'.kind \in {"title_required", "item_required"})
          => /\ docs' = docs /\ usedIds' = usedIds
             /\ saving' = saving /\ saveReq' = saveReq
             /\ isPublished' = isPublished
             /\ draft' = draft]_vars

(* a save refused because the two items of the list have no content *)
NoValidItemWitness ==
    /\ error = Err("item_required", "", 0)
    /\ title = "A" /\ Len(items) = 2 /\ Len(validItems(items)) = 0
    /\ ~saving /\ draft = Draft(title, items)

(* C16: every item of every stored document is valid: an image has a      *)
(* non-empty image_url, a video a non-empty video_id.                      *)
StoredItemsValid ==
    \A d \in DocIds :
        docs[d].exists =>
            \A i \in 1..Len(docs[d].document_data.items) : ValidItem(docs[d].document_data.items[i])

(* a document was stored without the invalid item the editor still holds *)
FilteredSaveWitness ==
    /\ pendingNav # NoId /\ docs[pendingNav].exists
    /\ Len(items) = 2 /\ Len(validItems(items)) = 1
    /\ docs[pendingNav].document_data.items = validItems(items)

(* C20: saving a new document again, after a failed attempt or after a    *)
(* successful create whose switch to edit mode is still under way, never   *)
(* leaves a second document record for the editing session.                *)
SaveRetryKeepsOneRecord ==
    [][CreateSucceeds => ~(pendingNav # NoId /\ docs[pendingNav].exists)]_vars

----------------------------------------------------------------------------
(* Claims about publish, unpublish and save as new, checked under          *)
(* SpecPublish                                                             *)

(* C17: Save As New creates exactly one new document record, unpublished  *)
(* (is_public false, is_published 'false') whatever the state of the       *)
(* source; it creates and changes no submission and leaves every other     *)
(* record, the source included, as it was.                                 *)
SaveAsNewCopiesUnpublished ==
    [][(saving /\ saveReq.kind = "as_new" /\ ~saving')
          => /\ tools' = tools
             /\ \/ docs' = docs
                \/ \E id \in DocIds :
                      /\ ~docs[id].exists /\ docs'[id].exists
                      /\ ~docs'[id].is_public
                      /\ docs'[id].document_data.is_published = "false"
                      /\ docs'[id].document_data.title = saveReq.data.title
                      /\ docs'[id].document_data.items = saveReq.data.items
                      /\ SubmissionsOf(id) = {}
                      /\ \A d \in DocIds \ {id} : docs'[d] = docs[d]]_vars

(* a published, submitted sequence was saved as new: the copy is private  *)
(* and has no submission                                                   *)
CopyOfPublishedWitness ==
    /\ editingId # NoId /\ pendingNav # NoId /\ pendingNav # editingId
    /\ docs[editingId].exists /\ docs[editingId].is_public
    /\ ActiveSubmissionsOf(editingId) # {}
    /\ docs[pendingNav].exists /\ ~docs[pendingNav].is_public
    /\ docs[pendingNav].document_data.is_published = "false"
    /\ docs[pendingNav].document_data.items = docs[editingId].document_data.items
    /\ SubmissionsOf(pendingNav) = {}

(* the row d after a write that changes its visibility only *)
WithVisibility(d, pub) ==
    UpdateRow(docs[d], pub, [docs[d].document_data EXCEPT !.is_published = PublishedString(pub)])

(* C18: the dashboard's publish and unpublish change the visibility of    *)
(* the one document and nothing else: no submission record is created,     *)
(* changed or deactivated, and no other document is written.               *)
PublishLeavesSubmissions ==
    [][(dash' # dash /\ dash'.op \in {"publish", "unpublish"})
          => /\ tools' = tools
             /\ \A d \in DocIds \ {dash'.id} : docs'[d] = docs[d]
             /\ \/ docs'[dash'.id] = docs[dash'.id]
                \/ docs'[dash'.id] = WithVisibility(dash'.id, dash'.op = "publish")]_vars

(* a sequence with an active submission was unpublished, and the          *)
(* submission is as it was                                                 *)
UnpublishedWithSubmissionWitness ==
    /\ dash.op = "unpublish" /\ dash.pc = "done"
    /\ docs[dash.id].exists /\ ~docs[dash.id].is_public
    /\ docs[dash.id].document_data.is_published = "false"
    /\ ActiveSubmissionsOf(dash.id) # {}

(* the document d is published and its stored content is what data holds *)
PublishedAs(d, data) ==
    /\ docs[d].exists /\ docs[d].is_public
    /\ docs[d].document_data.is_published = "true"
    /\ docs[d].document_data.title = data.title
    /\ docs[d].document_data.items = data.items

(* C19: publish applied to a document that is already published, from    *)
(* the dashboard or from the editor, leaves the stored record and the      *)
(* submissions exactly as they were.                                       *)
PublishIdempotent ==
    [][(\/ /\ dash' # dash /\ dash'.op = "publish"
           /\ docs[dash'.id].is_public
        \/ /\ saving /\ ~saving' /\ saveReq.kind = "draft" /\ saveReq.shouldPublish
           /\ saveReq.id # NoId /\ PublishedAs(saveReq.id, saveReq.data))
          => docs' = docs /\ tools' = tools]_vars

----------------------------------------------------------------------------
(* Claims about the image proxy, checked under SpecCalls and SpecProxy     *)

(* C21: unwrapping a URL that was wrapped once gives the URL back, for    *)
(* every URL that is not itself a proxy URL; and one unwrap of a URL that  *)
(* was wrapped twice gives the original URL back as well.                  *)
UnwrapInvertsWrap ==
    (call.fn = "unwrap" /\ call.done)
        => \A u \in RawImageUrls :
              call.arg \in {wrap(u), wrap(wrap(u))} => call.ret = u

(* a URL wrapped twice was unwrapped in one call *)
DoubleWrappedWitness ==
    /\ call.fn = "unwrap" /\ call.done
    /\ call.arg = wrap(wrap(Url("generic", Id(1, 5))))
    /\ call.arg.ps = <<0, 1>> /\ call.arg.enc = 2
    /\ call.ret = Url("generic", Id(1, 5))

(* C22: unwrap is idempotent: for a stored image URL wrapped any number   *)
(* of times (0, 1, 2 or more) unwrapping the result again changes nothing. *)
UnwrapIdempotent ==
    (call.fn = "unwrap" /\ call.done) => unwrap(call.ret) = call.ret

(* C23: after any load and save cycles every stored image_url is wrapped  *)
(* in the proxy exactly once.                                              *)
StoredImagesWrappedOnce ==
    \A d \in DocIds :
        docs[d].exists =>
            \A i \in 1..Len(docs[d].document_data.items) :
                LET item == docs[d].document_data.items[i]
                IN  item.type = "image" => item.image_url.ps = <<0>>

----------------------------------------------------------------------------
(* Claims about export, reorder and the classifier, checked under          *)
(* SpecCalls                                                               *)

(* C24: exporting a list and importing the exported text into an empty    *)
(* document gives an equivalent list: as many items, in the same order,    *)
(* each of the same type with the same video_id or image_url; for YouTube  *)
(* videos, Drive videos, Drive images and other images.                    *)
ExportImportRoundTrip ==
    (call.fn = "export_import" /\ call.done)
        => /\ Len(call.ret) = Len(call.arg)
           /\ \A i \in 1..Len(call.arg) :
                 /\ call.ret[i].type = call.arg[i].type
                 /\ call.ret[i].video_id = call.arg[i].video_id
                 /\ call.ret[i].image_url = call.arg[i].image_url

(* C25: dragging the item at index from onto index to and moving it with  *)
(* the position modal to position to + 1 give the same list, for every     *)
(* list and every pair of indices.                                         *)
DragEqualsMove ==
    (call.fn = "reorder" /\ call.done) => call.ret.drag = call.ret.move

(* the value an item is classified to *)
Canonical(item) == IF item.type = "image" THEN item.image_url ELSE item.video_id
(* a Drive direct-view URL; an 11-character YouTube id or a Drive file id *)
IsCanonical(item) ==
    IF item.type = "image"
    THEN item.image_url.kind = "drive_uc"
    ELSE item.video_id.kind = "id" /\ item.video_id.id.len \in {11, 33}

(* C26: classification is a fixed point on canonical forms: a Drive       *)
(* direct-view URL, an 11-character YouTube id or a Drive file id given to *)
(* the classifier and to the converters again comes back as the same       *)
(* value.                                                                  *)
ClassifyFixedPoint ==
    (call.fn = "classify" /\ call.done /\ call.ret # Skip /\ IsCanonical(call.ret))
        => LET c == Canonical(call.ret)
           IN  /\ Canonical(BulkLineItem(c, 1)) = c
               /\ call.ret.type = "image" => convertGoogleDriveUrl(c) = c
               /\ call.ret.type = "video"
                     => extractYouTubeId(c) = c /\ convertGoogleDriveVideoUrl(c) = c

(* a YouTube URL was classified to its id, and the id is classified to     *)
(* itself                                                                  *)
YouTubeIdWitness ==
    /\ call.fn = "classify" /\ call.done
    /\ call.arg = Url("yt_be", YtId(6))
    /\ call.ret.type = "video" /\ call.ret.video_id = Url("id", YtId(6))
    /\ extractYouTubeId(call.ret.video_id) = Url("id", YtId(6))

----------------------------------------------------------------------------
(* Claims about the playlist route, checked under SpecCalls                *)

(* the number a component stands for, 0 when it is absent *)
ComponentValue(c) == IF c = <<>> THEN 0 ELSE parseInt(SubSeq(c, 1, Len(c) - 1))

(* C27: parseDuration returns hours*3600 + minutes*60 + seconds for every *)
(* string PT[nH][nM][nS], whichever of the three components are present,   *)
(* and 0 for a string that is not of that form.                            *)
ParseDurationSums ==
    (call.fn = "parseDuration" /\ call.done)
        => /\ \A h \in Component("H"), m \in Component("M"), sec \in Component("S") :
                 call.arg = IsoDuration(h, m, sec)
                    => call.ret = ComponentValue(h) * 3600 + ComponentValue(m) * 60 + ComponentValue(sec)
           /\ call.arg \notin IsoDurations => call.ret = 0

(* C28: when the playlist listing succeeded and the enrichment lookup     *)
(* failed in any way (a status that is not OK, a network error, a          *)
(* malformed body), the route still answers with one basic entry per       *)
(* playlist item and no error.                                             *)
EnrichmentFailureDegrades ==
    (/\ call.fn = "POST" /\ call.done
     /\ call.arg.response.status = 200 /\ Len(call.arg.response.items) > 0
     /\ call.arg.videosResponse.kind # "ok")
        => /\ call.ret.status = 200
           /\ call.ret.videos = basicVideos(call.arg.response.items)

----------------------------------------------------------------------------
(* Claims about visibility, checked under SpecPublish                      *)

(* C29: after any dashboard publish / unpublish and editor save / publish *)
(* / save as new, is_public is true exactly when                           *)
(* document_data.is_published is the string 'true'.                        *)
VisibilityMirrored ==
    \A d \in DocIds :
        docs[d].exists => (docs[d].is_public <=> docs[d].document_data.is_published = "true")

(* a document published in the editor, unpublished and published again on *)
(* the dashboard                                                           *)
RepublishedWitness ==
    /\ dash.op = "publish" /\ dash.pc = "done"
    /\ docs[dash.id].exists /\ docs[dash.id].is_public
    /\ docs[dash.id].document_data.is_published = "true"
    /\ docs[dash.id].document_data.published_at # NoStamp

(* C30: a reported document cannot be made public by its owner: while     *)
(* reported is true, no step of the editor or of the dashboard writes      *)
(* is_public = true to a document that is not public.                      *)
ReportedStaysUnpublished ==
    [][\A d \in DocIds :
          (docs[d].exists /\ docs[d].reported /\ ~docs[d].is_public)
             => ~(docs'[d].exists /\ docs'[d].is_public)]_vars

----------------------------------------------------------------------------
(* Claims about the editor's flags, checked under SpecDraft *)

(* a load started by router.push ended with the row applied *)
LoadSucceeds == pendingNav # NoId /\ pendingNav' = NoId /\ error'.kind # "load_failed"

(* C31: when a save has completed successfully, and when an existing      *)
(* document has finished loading, hasUnsavedChanges is false: the floating *)
(* save button is hidden until the next edit.                              *)
SavedMeansNoUnsavedChanges ==
    [][((saving /\ ~saving' /\ error'.kind # "save_failed") \/ LoadSucceeds)
          => ~hasUnsavedChanges']_vars

----------------------------------------------------------------------------
(* Claims about imports and saves in flight, checked under SpecInFlight *)

(* the import of src that was awaited ends in this step *)
ImportEnds(src) == importing[src].on /\ ~importing'[src].on

(* C32: imports in flight together, or an edit of the list while an       *)
(* import is in flight, lose nothing and keep the numbering: each import   *)
(* that succeeds adds all its items, and once no import is in flight the   *)
(* positions are exactly 1..N.                                             *)
InFlightImportsKeepPositions ==
    [][\A src \in ApiImports :
          ImportEnds(src)
             => /\ lastOp'.ok => Len(items') = Len(items) + lastOp'.k
                /\ (\A s \in ApiImports : ~importing'[s].on) => PositionsDense(items')]_vars

(* C33: the items a save has written to the store have positions exactly  *)
(* 1..N for the N items persisted: the invalid items the save drops leave  *)
(* no gap.                                                                 *)
StoredPositionsDense ==
    \A d \in DocIds : docs[d].exists => PositionsDense(docs[d].document_data.items)

(* C34: whenever the editor shows its document as published (isPublished  *)
(* is true and publishedUrl is set), publishedDocId is that document's id, *)
(* so the channel submission link never carries an empty doc_id.           *)
PublishedDocIdSet ==
    (isPublished /\ publishedUrl # NoId) => publishedDocId = publishedUrl

(* the save in flight was started without a forced publish state *)
UnforcedSaveEnds(d) ==
    /\ saving /\ ~saving'
    /\ saveReq.kind = "draft" /\ saveReq.forcePublished = "undefined" /\ saveReq.id = d

(* C35: an editor save that forces no publish state (Save Changes, the    *)
(* floating save) leaves the document's visibility as it was, and no save  *)
(* of the editor (its only writes) makes a published document unpublished. *)
SavePreservesVisibility ==
    [][\A d \in DocIds :
          (docs[d].exists /\ docs'[d].exists /\ saving /\ ~saving')
             => /\ UnforcedSaveEnds(d) => docs'[d].is_public = docs[d].is_public
                /\ docs[d].is_public => docs'[d].is_public]_vars

----------------------------------------------------------------------------
(* Claim about the dashboard beside an open editor, checked under SpecTabs *)

(* document_data without the two fields publish and unpublish set *)
OtherFields(data) == [data EXCEPT !.is_published = "", !.published_at = NoStamp]

(* C36: the dashboard's publish and unpublish change only is_public and   *)
(* is_published: every other field of document_data is what was last       *)
(* written before, also when an editor save of the document landed between *)
(* the dashboard's read and its write.                                     *)
DashboardWritesOnlyVisibility ==
    [][(dash.op \in {"publish", "unpublish"} /\ dash.pc = "update" /\ dash'.pc = "done")
          => OtherFields(docs'[dash.id].document_data) = OtherFields(docs[dash.id].document_data)]_vars

----------------------------------------------------------------------------
(* Further claims about the dashboard and the draft, checked under Spec    *)
(* and, for the editor page as it opens, under SpecOpen                    *)

(* C37: when the record deletion of the dashboard's delete fails, the     *)
(* document is as it was when the delete was requested: its visibility     *)
(* (is_published, as the handler read it) has not changed.                 *)
FailedDeleteLeavesDocument ==
    (dash.op = "delete" /\ dash.pc = "failed" /\ dash.fetched)
        => /\ docs[dash.id].exists
           /\ docs[dash.id].document_data = dash.doc
           /\ docs[dash.id].is_public = (dash.doc.is_published = "true")

(* C38: saving an existing document (edit mode) leaves the stored          *)
(* new-document draft as it is.                                            *)
EditSaveLeavesDraft ==
    [][(saving /\ ~saving' /\ saveReq.kind = "draft" /\ saveReq.id # NoId) => draft' = draft]_vars

(* the editor page is opened from the dashboard in this step *)
EditorOpens == dash.op # "none" /\ dash'.op = "none"

(* C39: opening the editor leaves the stored draft as it is (the autosave *)
(* of the mount never replaces it with an empty document); the             *)
(* new-document editor opens on the stored draft's title and items; the    *)
(* editor of an existing document opens on the row it loaded, or blank     *)
(* when the load failed, never on the draft.                               *)
DraftRestoredOnOpen ==
    [][EditorOpens
          => /\ draft' = draft
             /\ (editingId' = NoId /\ draft.present)
                   => (title' = draft.title /\ items' = draft.items)
             /\ editingId' # NoId
                   => \/ /\ title' = docs[editingId'].document_data.title
                         /\ items' = cleanedItems(docs[editingId'].document_data.items)
                      \/ (title' = "" /\ items' = <<>>)]_vars

(* the new-document editor reopened on a draft with a title and an item *)
DraftRestoredWitness ==
    /\ dash.op = "none" /\ editingId = NoId
    /\ lastOp = NoOp
    /\ draft.present /\ draft.title = "A" /\ Len(draft.items) = 1
    /\ title = draft.title /\ items = draft.items

----------------------------------------------------------------------------
(* Claim about termination, checked under SpecInFlight *)

(* the save that ends in this step has set its success state: the row the  *)
(* handler built is in the store                                           *)
SaveWritten ==
    IF saveReq.kind = "draft" /\ saveReq.id # NoId
    THEN /\ docs'[saveReq.id].is_public = saveReq.shouldPublish
         /\ OtherFields(docs'[saveReq.id].document_data) = OtherFields(saveReq.data)
    ELSE /\ pendingNav' # NoId
         /\ docs'[pendingNav'].exists
         /\ OtherFields(docs'[pendingNav'].document_data) = OtherFields(saveReq.data)

(* C40: every save, save as new and import attempt ends: the saving flag  *)
(* (the source's importing flag) that the attempt set is false again,      *)
(* whether the awaited call succeeded or failed, and the attempt ends      *)
(* either with its success state or with its error message set.            *)
AttemptsTerminate ==
    /\ saving ~> ~saving
    /\ \A src \in ApiImports : importing[src].on ~> ~importing[src].on
    /\ [][/\ (saving /\ ~saving') => (error'.kind = "save_failed" \/ SaveWritten)
          /\ \A src \in ApiImports :
                ImportEnds(src)
                   => (error' = Err("imported", src, lastOp'.k) \/ importError'[src] # Null)]_vars

(* a save and a playlist import that were in flight together have both     *)
(* ended, the save with its row written and the import with its banner     *)
AttemptsEndedWitness ==
    /\ ~saving /\ saveReq = NoSave
    /\ \A src \in ApiImports : ~importing[src].on
    /\ lastOp.kind = "playlist" /\ lastOp.ok
    /\ usedIds # {}
    /\ Len(items) = 2

====
